---- MODULE Spec2Model ----
(***************************************************************************)
(* The LLM response normalisation pipeline of backend/app/dependencies.py: *)
(* generate_questions, generate_goal_breakdown, generate_implementation_   *)
(* plan and the validators they call; and the goal endpoints of            *)
(* backend/app/main.py and backend/app/routers/goals.py that store what    *)
(* the generators return.                                                  *)
(*                                                                         *)
(* Texts are TLA+ strings handled character by character, as the Python    *)
(* code handles them.  Two renamings are forced by the TLA+ lexer:         *)
(*   - a string literal cannot hold a backtick, so the character "~"       *)
(*     stands for the backtick everywhere (Fence is the three-backtick     *)
(*     marker);                                                            *)
(*   - a string literal cannot hold non-ASCII text, so the Chinese         *)
(*     messages of the source are given in English, one fixed English      *)
(*     string per source string.                                           *)
(* Python values are tagged tuples: <<"dict", pairs>> (pairs in insertion  *)
(* order, keys unique), <<"list", xs>>, <<"str", s>>, <<"int", n>>,        *)
(* <<"bool", b>>, <<"null">>.                                              *)
(***************************************************************************)
EXTENDS Integers, Sequences, FiniteSets, TLC

\* request, outcome: a generation call taken as one step, and what it gave.
VARIABLES request, outcome
\* The same calls taken stage by stage, by callers that run side by side;
\* per caller: pc the stage it is at, req its request, calls the LLM calls it
\* has made, work the text or value it is working on, reply what it gave.
\* objects holds the dicts that get_default_questions handed out, which a
\* caller may change afterwards; changed is the set of callers that did.
VARIABLES pc, req, calls, work, reply, objects, changed
\* The goal endpoints: goals is the goals table (a set of rows), inflight the
\* requests that wait for the LLM, handled what the last step of a request
\* handler did: who asked, for what, and what was sent back.
VARIABLES goals, inflight, handled

staged == <<pc, req, calls, work, reply, objects, changed>>
stored == <<goals, inflight, handled>>
vars == <<request, outcome, pc, req, calls, work, reply, objects, changed,
          goals, inflight, handled>>

(***************************************************************************)
(* Python values (what json.loads builds and the generators return).       *)
(***************************************************************************)
JNull == <<"null">>
JBool(b) == <<"bool", b>>
JInt(n) == <<"int", n>>
JStr(s) == <<"str", s>>
JList(xs) == <<"list", xs>>
JDict(pairs) == <<"dict", pairs>>

IsDict(v) == v[1] = "dict"
IsList(v) == v[1] = "list"
IsStr(v) == v[1] = "str"

\* k in d, d[k] and d[k] = v for a dict d (insertion order kept, as in Python).
HasKey(d, k) == \E n \in 1..Len(d[2]) : d[2][n][1] = k
Get(d, k) == LET n == CHOOSE m \in 1..Len(d[2]) : d[2][m][1] = k IN d[2][n][2]
PutPairs(pairs, k, v) ==
    IF \E n \in 1..Len(pairs) : pairs[n][1] = k
    THEN [n \in 1..Len(pairs) |-> IF pairs[n][1] = k THEN <<k, v>> ELSE pairs[n]]
    ELSE Append(pairs, <<k, v>>)
Put(d, k, v) == JDict(PutPairs(d[2], k, v))
Keys(d) == [n \in 1..Len(d[2]) |-> d[2][n][1]]

(***************************************************************************)
(* Python string operations.  Indices handed in and out are Python's       *)
(* (0-based, -1 for "not found"); Slice(s, a, b) is s[a:b] for a, b >= 0.  *)
(***************************************************************************)
Ch(s, i) == IF i >= 1 /\ i <= Len(s) THEN SubSeq(s, i, i) ELSE ""
IsWs(c) == c \in {" ", "\n", "\r", "\t"}
Min(S) == CHOOSE m \in S : \A n \in S : m <= n
Max(S) == CHOOSE m \in S : \A n \in S : m >= n

Slice(s, a, b) ==
    LET hi == IF b > Len(s) THEN Len(s) ELSE b
    IN  IF a >= hi THEN "" ELSE SubSeq(s, a + 1, hi)
Occurrences(s, pat) ==
    {i \in 0..(Len(s) - Len(pat)) : SubSeq(s, i + 1, i + Len(pat)) = pat}
PyFind(s, pat, start) ==
    LET hits == {i \in Occurrences(s, pat) : i >= start}
    IN  IF hits = {} THEN -1 ELSE Min(hits)
PyRFind(s, pat) ==
    LET hits == Occurrences(s, pat)
    IN  IF hits = {} THEN -1 ELSE Max(hits)
Contains(s, pat) == Occurrences(s, pat) # {}
StartsWith(s, pat) == Len(s) >= Len(pat) /\ SubSeq(s, 1, Len(pat)) = pat

RECURSIVE SkipWs(_, _)
SkipWs(s, i) == IF IsWs(Ch(s, i)) THEN SkipWs(s, i + 1) ELSE i
RECURSIVE SkipWsBack(_, _)
SkipWsBack(s, i) == IF IsWs(Ch(s, i)) THEN SkipWsBack(s, i - 1) ELSE i
\* str.strip()
Strip(s) ==
    LET a == SkipWs(s, 1)
        b == SkipWsBack(s, Len(s))
    IN  IF a > b THEN "" ELSE SubSeq(s, a, b)

\* s with the characters at the positions (1-based) in del removed and those
\* in spc replaced by a space; the other characters are kept.
RECURSIVE Rewrite(_, _, _, _, _)
Rewrite(s, lo, hi, del, spc) ==
    IF lo > hi THEN ""
    ELSE IF \A p \in lo..hi : p \notin del /\ p \notin spc THEN SubSeq(s, lo, hi)
    ELSE IF lo = hi THEN (IF lo \in del THEN "" ELSE " ")
    ELSE LET mid == (lo + hi) \div 2
         IN  Rewrite(s, lo, mid, del, spc) \o Rewrite(s, mid + 1, hi, del, spc)
\* s.replace(old, new) for a one-character old and new = "" or " ".
ReplaceChar(s, old, new) ==
    LET at == {p \in 1..Len(s) : Ch(s, p) = old}
    IN  IF new = "" THEN Rewrite(s, 1, Len(s), at, {}) ELSE Rewrite(s, 1, Len(s), {}, at)
\* s.replace("," + c, c): every comma directly followed by c is removed (two
\* occurrences of a two-character pattern of distinct characters never overlap).
ReplaceCommaBefore(s, c) ==
    Rewrite(s, 1, Len(s), {i + 1 : i \in Occurrences(s, "," \o c)}, {})

\* s.split(sep)[0] and s.split(sep)[1], the latter used only where sep is in s.
SplitPiece0(s, sep) ==
    LET a == PyFind(s, sep, 0)
    IN  IF a < 0 THEN s ELSE Slice(s, 0, a)
SplitPiece1(s, sep) ==
    LET a == PyFind(s, sep, 0)
        b == PyFind(s, sep, a + Len(sep))
    IN  Slice(s, a + Len(sep), IF b < 0 THEN Len(s) ELSE b)
\* s.split("\n")
RECURSIVE SplitLines(_, _)
SplitLines(s, start) ==
    LET n == PyFind(s, "\n", start)
    IN  IF n < 0 THEN <<Slice(s, start, Len(s))>>
        ELSE <<Slice(s, start, n)>> \o SplitLines(s, n + 1)
\* sep.join(parts)
RECURSIVE JoinWith(_, _)
JoinWith(parts, sep) ==
    IF parts = <<>> THEN ""
    ELSE IF Len(parts) = 1 THEN parts[1]
    ELSE parts[1] \o sep \o JoinWith(Tail(parts), sep)
JoinLines(lines) == JoinWith(lines, "\n")

(***************************************************************************)
(* json.loads.  The grammar is JSON's over the characters the responses    *)
(* are built from: objects, arrays, strings without escapes (a backslash   *)
(* or a control character inside a string is refused), unsigned integers,  *)
(* true, false, null, and the whitespace " \t\n\r".                        *)
(***************************************************************************)
Digits == {"0", "1", "2", "3", "4", "5", "6", "7", "8", "9"}
DigitVal(c) ==
    CASE c = "0" -> 0 [] c = "1" -> 1 [] c = "2" -> 2 [] c = "3" -> 3 [] c = "4" -> 4
      [] c = "5" -> 5 [] c = "6" -> 6 [] c = "7" -> 7 [] c = "8" -> 8 [] c = "9" -> 9
StrStop == {"\"", "\\", "\n", "\r", "\t"}
RECURSIVE StrEnd(_, _)
StrEnd(s, i) == IF i > Len(s) \/ Ch(s, i) \in StrStop THEN i ELSE StrEnd(s, i + 1)
RECURSIVE NumEnd(_, _)
NumEnd(s, i) == IF Ch(s, i) \in Digits THEN NumEnd(s, i + 1) ELSE i
RECURSIVE NumVal(_, _, _, _)
NumVal(s, i, j, acc) ==
    IF i >= j THEN acc ELSE NumVal(s, i + 1, j, 10 * acc + DigitVal(Ch(s, i)))

ParseFail == <<FALSE, JNull, 0>>

RECURSIVE ParseValue(_, _)
RECURSIVE ParseMembers(_, _, _)
RECURSIVE ParseElements(_, _, _)
ParseString(s, i) ==
    LET e == StrEnd(s, i + 1)
    IN  IF Ch(s, e) = "\"" THEN <<TRUE, JStr(Slice(s, i, e - 1)), e + 1>> ELSE ParseFail
ParseNumber(s, i) ==
    LET e == NumEnd(s, i)
    IN  IF Ch(s, i) = "0" THEN <<TRUE, JInt(0), i + 1>>
        ELSE <<TRUE, JInt(NumVal(s, i, e, 0)), e>>
ParseLiteral(s, i) ==
    CASE Slice(s, i - 1, i + 3) = "true" -> <<TRUE, JBool(TRUE), i + 4>>
      [] Slice(s, i - 1, i + 4) = "false" -> <<TRUE, JBool(FALSE), i + 5>>
      [] Slice(s, i - 1, i + 3) = "null" -> <<TRUE, JNull, i + 4>>
      [] OTHER -> ParseFail
ParseMembers(s, i, acc) ==
    IF Ch(s, i) # "\"" THEN ParseFail
    ELSE LET k == ParseString(s, i)
         IN  IF ~k[1] THEN ParseFail
             ELSE LET c == SkipWs(s, k[3])
                  IN  IF Ch(s, c) # ":" THEN ParseFail
                      ELSE LET v == ParseValue(s, c + 1)
                           IN  IF ~v[1] THEN ParseFail
                               ELSE LET n == SkipWs(s, v[3])
                                        acc2 == PutPairs(acc, k[2][2], v[2])
                                    IN  CASE Ch(s, n) = "}" -> <<TRUE, JDict(acc2), n + 1>>
                                          [] Ch(s, n) = "," ->
                                                ParseMembers(s, SkipWs(s, n + 1), acc2)
                                          [] OTHER -> ParseFail
ParseElements(s, i, acc) ==
    LET v == ParseValue(s, i)
    IN  IF ~v[1] THEN ParseFail
        ELSE LET n == SkipWs(s, v[3])
                 acc2 == Append(acc, v[2])
             IN  CASE Ch(s, n) = "]" -> <<TRUE, JList(acc2), n + 1>>
                   [] Ch(s, n) = "," -> ParseElements(s, n + 1, acc2)
                   [] OTHER -> ParseFail
ParseValue(s, i) ==
    LET j == SkipWs(s, i)
        c == Ch(s, j)
    IN  CASE c = "{" -> LET m == SkipWs(s, j + 1)
                        IN  IF Ch(s, m) = "}" THEN <<TRUE, JDict(<<>>), m + 1>>
                            ELSE ParseMembers(s, m, <<>>)
          [] c = "[" -> LET m == SkipWs(s, j + 1)
                        IN  IF Ch(s, m) = "]" THEN <<TRUE, JList(<<>>), m + 1>>
                            ELSE ParseElements(s, m, <<>>)
          [] c = "\"" -> ParseString(s, j)
          [] c \in Digits -> ParseNumber(s, j)
          [] c \in {"t", "f", "n"} -> ParseLiteral(s, j)
          [] OTHER -> ParseFail
\* <<TRUE, value>>, or <<FALSE, JNull>> where json.loads raises JSONDecodeError.
JsonLoads(s) ==
    LET r == ParseValue(s, 1)
    IN  IF r[1] /\ SkipWs(s, r[3]) > Len(s) THEN <<TRUE, r[2]>> ELSE <<FALSE, JNull>>

(***************************************************************************)
(* str(v) and repr(v) of a Python value, as the f-strings of the source    *)
(* format it (a str is quoted by repr with single quotes).                 *)
(***************************************************************************)
RECURSIVE PyRepr(_)
RECURSIVE ReprItems(_, _)
RECURSIVE ReprPairs(_, _)
ReprItems(xs, n) ==
    IF n > Len(xs) THEN ""
    ELSE PyRepr(xs[n]) \o (IF n < Len(xs) THEN ", " ELSE "") \o ReprItems(xs, n + 1)
ReprPairs(ps, n) ==
    IF n > Len(ps) THEN ""
    ELSE "'" \o ps[n][1] \o "': " \o PyRepr(ps[n][2])
         \o (IF n < Len(ps) THEN ", " ELSE "") \o ReprPairs(ps, n + 1)
PyRepr(v) ==
    CASE v[1] = "str" -> "'" \o v[2] \o "'"
      [] v[1] = "int" -> ToString(v[2])
      [] v[1] = "bool" -> (IF v[2] THEN "True" ELSE "False")
      [] v[1] = "null" -> "None"
      [] v[1] = "list" -> "[" \o ReprItems(v[2], 1) \o "]"
      [] v[1] = "dict" -> "{" \o ReprPairs(v[2], 1) \o "}"
PyStr(v) == IF v[1] = "str" THEN v[2] ELSE PyRepr(v)

(***************************************************************************)
(* What a generator hands back: a returned value or a raised               *)
(* HTTPException with its detail.  The LLM client's answer is <<"raise">>  *)
(* (generate_content raises) or <<"text", s>> (response.text is s).        *)
(***************************************************************************)
Return(v) == <<"return", v>>
Raise(detail) == <<"raise", detail>>
Returned(o) == o[1] = "return"
Raised(o) == o[1] = "raise"

LlmRaise == <<"raise">>
LlmText(s) == <<"text", s>>

\* The three-backtick marker ("~" stands for the backtick).
Fence == "~~~"

(***************************************************************************)
(* generate_questions                                                      *)
(***************************************************************************)
Question(id, question, purpose, expected_insight) ==
    JDict(<< <<"id", JStr(id)>>, <<"question", JStr(question)>>,
             <<"purpose", JStr(purpose)>>, <<"expected_insight", JStr(expected_insight)>> >>)

get_default_questions ==
    JDict(<< <<"questions", JList(<<
        Question("1", "What is your understanding of this goal?",
                 "make sure we share an understanding of the goal",
                 "learn how the user sees the goal"),
        Question("2", "What is the main challenge you face in this direction?",
                 "identify potential obstacles",
                 "learn the difficulties to overcome"),
        Question("3", "In how much time do you want to reach this goal?",
                 "set a time frame",
                 "learn the user's time expectation") >>)>> >>)

\* Lines 115-124: the code-fence clean-up of generate_questions.
ExtractQuestionsText(response_text) ==
    IF StartsWith(response_text, Fence)
    THEN LET first_block == PyFind(response_text, Fence, 0)
             last_block == PyRFind(response_text, Fence)
         IN  IF first_block # last_block
             THEN LET start_content == PyFind(response_text, "\n", first_block) + 1
                  IN  Strip(Slice(response_text, start_content, last_block))
             ELSE response_text
    ELSE response_text

\* Lines 127-152: strict parse, then the slice from the first "{" to the last
\* "}" of the text with its line breaks replaced.  <<FALSE, _>> is the return
\* of the default questions.
ParseQuestionsText(response_text) ==
    LET strict == JsonLoads(response_text)
    IN  IF strict[1] THEN strict
        ELSE LET cleaned == Strip(ReplaceChar(ReplaceChar(response_text, "\n", " "), "\r", ""))
                 start == PyFind(cleaned, "{", 0)
                 end == PyRFind(cleaned, "}") + 1
             IN  IF start >= 0 /\ end > start
                 THEN JsonLoads(Slice(cleaned, start, end))
                 ELSE <<FALSE, JNull>>

\* k in v, for the Python value v: <<"raise">> where Python raises TypeError.
PyIn(k, v) ==
    CASE v[1] = "dict" -> <<"ok", HasKey(v, k)>>
      [] v[1] = "list" -> <<"ok", \E n \in 1..Len(v[2]) : v[2][n] = JStr(k)>>
      [] v[1] = "str" -> <<"ok", Contains(v[2], k)>>
      [] OTHER -> <<"raise">>
\* enumerate(v): the items iterated, or <<"raise">> for a value that is not iterable.
PyIter(v) ==
    CASE v[1] = "list" -> <<"ok", v[2]>>
      [] v[1] = "str" -> <<"ok", [n \in 1..Len(v[2]) |-> JStr(Ch(v[2], n))]>>
      [] v[1] = "dict" -> <<"ok", [n \in 1..Len(v[2]) |-> JStr(v[2][n][1])]>>
      [] OTHER -> <<"raise">>

\* Variant of ConcernQuestion that numbers the questions from 0, as
\* enumerate without its start argument would.
ConcernQuestion_FromZero(i, concern) ==
    Question(ToString(i - 1),
             "About \"" \o PyStr(concern) \o "\", what is your situation?",
             "learn the details about " \o PyStr(concern),
             "get the user's situation regarding " \o PyStr(concern))

\* Lines 165-170: the question built from one concern.
ConcernQuestion(i, concern) ==
    Question(ToString(i),
             "About \"" \o PyStr(concern) \o "\", what is your situation?",
             "learn the details about " \o PyStr(concern),
             "get the user's situation regarding " \o PyStr(concern))

\* Variant of QuestionsFromAnalysis that answers a result without usable
\* concerns with an empty questions list instead of the default set.
QuestionsFromAnalysis_EmptyList(result) ==
    LET empty == <<"ok", Put(result, "questions", JList(<<>>))>>
    IN  IF ~HasKey(result, "analysis") THEN empty
        ELSE LET analysis == Get(result, "analysis")
                 has == PyIn("key_concerns", analysis)
             IN  IF has[1] = "raise" THEN <<"default">>
                 ELSE IF ~has[2] THEN empty
                 ELSE IF ~IsDict(analysis) THEN <<"default">>
                 ELSE LET items == PyIter(Get(analysis, "key_concerns"))
                      IN  IF items[1] = "raise" THEN <<"default">>
                          ELSE <<"ok", Put(result, "questions",
                                    JList([i \in 1..Len(items[2]) |-> ConcernQuestion(i, items[2][i])]))>>

\* Lines 159-173: result when it has no "questions" key.  <<"default">> is the
\* return of the default questions (line 173, or an exception caught at 202),
\* <<"ok", result>> the result with the built questions.
QuestionsFromAnalysis(result) ==
    IF ~HasKey(result, "analysis") THEN <<"default">>
    ELSE LET analysis == Get(result, "analysis")
             has == PyIn("key_concerns", analysis)
         IN  IF has[1] = "raise" THEN <<"default">>
             ELSE IF ~has[2] THEN <<"default">>
             ELSE IF ~IsDict(analysis) THEN <<"default">>
             ELSE LET items == PyIter(Get(analysis, "key_concerns"))
                  IN  IF items[1] = "raise" THEN <<"default">>
                      ELSE <<"ok", Put(result, "questions",
                                JList([i \in 1..Len(items[2]) |-> ConcernQuestion(i, items[2][i])]))>>

\* Lines 181-198: one pass of the loop over result['questions']; i is the
\* 0-based index of enumerate.
RepairQuestion(i, q) ==
    IF ~IsDict(q) THEN q
    ELSE IF \A f \in {"id", "question", "purpose"} : HasKey(q, f) THEN q
    ELSE LET q1 == IF HasKey(q, "id") THEN q ELSE Put(q, "id", JStr(ToString(i + 1)))
             q2 == IF HasKey(q1, "question") THEN q1
                   ELSE Put(q1, "question", JStr("Please describe your thoughts"))
             q3 == IF HasKey(q2, "purpose") THEN q2
                   ELSE Put(q2, "purpose", JStr("learn more details"))
         IN  IF HasKey(q3, "expected_insight") THEN q3
             ELSE Put(q3, "expected_insight", JStr("get the user's concrete thoughts"))

\* Variant of QuestionsFromResult without the check of line 175: a result
\* whose "questions" is not a list is returned as it is.
QuestionsFromResult_NoListCheck(parsed) ==
    IF ~IsDict(parsed) THEN Return(get_default_questions)
    ELSE LET built == IF HasKey(parsed, "questions") THEN <<"ok", parsed>>
                      ELSE QuestionsFromAnalysis(parsed)
         IN  IF built[1] = "default" THEN Return(get_default_questions)
             ELSE LET result == built[2]
                      questions == Get(result, "questions")
                  IN  IF ~IsList(questions) THEN Return(result)
                      ELSE Return(Put(result, "questions",
                              JList([n \in 1..Len(questions[2]) |->
                                        RepairQuestion(n - 1, questions[2][n])])))

\* Lines 154-200, on the parsed result.
QuestionsFromResult(parsed) ==
    IF ~IsDict(parsed) THEN Return(get_default_questions)
    ELSE LET built == IF HasKey(parsed, "questions") THEN <<"ok", parsed>>
                      ELSE QuestionsFromAnalysis(parsed)
         IN  IF built[1] = "default" THEN Return(get_default_questions)
             ELSE LET result == built[2]
                      questions == Get(result, "questions")
                  IN  IF ~IsList(questions) THEN Return(get_default_questions)
                      ELSE Return(Put(result, "questions",
                              JList([n \in 1..Len(questions[2]) |->
                                        RepairQuestion(n - 1, questions[2][n])])))

\* Lines 96-204.
generate_questions(llm) ==
    IF llm = LlmRaise THEN Return(get_default_questions)
    ELSE LET response_text == Strip(llm[2])
         IN  IF response_text = "" THEN Return(get_default_questions)
             ELSE LET parsed == ParseQuestionsText(ExtractQuestionsText(response_text))
                  IN  IF ~parsed[1] THEN Return(get_default_questions)
                      ELSE QuestionsFromResult(parsed[2])

(***************************************************************************)
(* get_gemini_response (lines 565-577): the response text, or the          *)
(* HTTPException raised when the client raises or the text is empty.       *)
(***************************************************************************)
ServiceUnavailable == "AI service temporarily unavailable, please retry later"
MalformedOutput == "the generated content is malformed, please retry"

\* Variant of get_gemini_response without the check of lines 569-570: an
\* empty text is handed on to the parser.
get_gemini_response_NoEmptyCheck(llm) ==
    IF llm = LlmRaise THEN Raise(ServiceUnavailable)
    ELSE Return(llm[2])

get_gemini_response(llm) ==
    IF llm = LlmRaise THEN Raise(ServiceUnavailable)
    ELSE IF llm[2] = "" THEN Raise(ServiceUnavailable)
    ELSE Return(llm[2])

(***************************************************************************)
(* validate_goal_breakdown (lines 506-563): <<"ok">>, or the exception     *)
(* raised, <<"KeyError", message>> or <<"ValueError", message>>.           *)
(***************************************************************************)
Valid == <<"ok">>
KeyError(msg) == <<"KeyError", msg>>
ValueError(msg) == <<"ValueError", msg>>

required_criteria_fields == <<"must_have_skills", "must_complete_tasks", "validation_methods">>
required_phase_fields == <<"name", "focus_dimensions", "milestones", "exit_criteria">>

\* The first field of fields (in order) that d lacks, as a sequence of
\* length 0 or 1.
FirstMissing(fields, d) ==
    LET missing == SelectSeq(fields, LAMBDA f : ~HasKey(d, f))
    IN  IF missing = <<>> THEN <<>> ELSE <<missing[1]>>
MissingFields(fields, d) == SelectSeq(fields, LAMBDA f : ~HasKey(d, f))

\* Lines 544-563: the checks on one phase.
ValidatePhase(phase) ==
    IF ~IsDict(phase) THEN ValueError("phase must be a dict")
    ELSE LET missing == FirstMissing(required_phase_fields, phase)
         IN  IF missing # <<>> THEN KeyError("phase lacks the " \o missing[1] \o " field")
             ELSE IF ~IsList(Get(phase, "focus_dimensions"))
                  THEN ValueError("focus_dimensions must be a list")
             ELSE IF ~IsList(Get(phase, "milestones"))
                  THEN ValueError("milestones must be a list")
             ELSE IF ~IsDict(Get(phase, "exit_criteria"))
                  THEN ValueError("exit_criteria must be a dict")
             ELSE IF ~HasKey(Get(phase, "exit_criteria"), "skills_checklist")
                     \/ ~HasKey(Get(phase, "exit_criteria"), "practical_tasks")
                  THEN KeyError("exit_criteria lacks required fields")
             ELSE Valid

\* Lines 535-563: the checks on data["phases"].
ValidatePhases(data) ==
    IF ~HasKey(data, "phases") THEN KeyError("missing phases field")
    ELSE LET phases == Get(data, "phases")
         IN  IF ~IsList(phases) THEN ValueError("phases must be a list")
             ELSE LET bad == {n \in 1..Len(phases[2]) : ValidatePhase(phases[2][n]) # Valid}
                  IN  IF bad = {} THEN Valid ELSE ValidatePhase(phases[2][Min(bad)])

\* Variant of ValidateGoal that does not require validation_methods.
ValidateGoal_TwoCriteria(data) ==
    IF ~HasKey(data, "goal") THEN KeyError("missing goal field")
    ELSE LET goal == Get(data, "goal")
         IN  IF ~IsDict(goal) THEN ValueError("goal must be a dict")
             ELSE IF ~HasKey(goal, "description") THEN KeyError("missing goal.description field")
             ELSE IF ~HasKey(goal, "completion_criteria")
                  THEN KeyError("missing goal.completion_criteria field")
             ELSE LET criteria == Get(goal, "completion_criteria")
                  IN  IF ~IsDict(criteria) THEN ValueError("completion_criteria must be a dict")
                      ELSE LET missing == FirstMissing(<<"must_have_skills", "must_complete_tasks">>,
                                                       criteria)
                           IN  IF missing # <<>>
                               THEN KeyError("missing completion_criteria." \o missing[1] \o " field")
                               ELSE Valid

\* Lines 512-533: the checks on data["goal"].
ValidateGoal(data) ==
    IF ~HasKey(data, "goal") THEN KeyError("missing goal field")
    ELSE LET goal == Get(data, "goal")
         IN  IF ~IsDict(goal) THEN ValueError("goal must be a dict")
             ELSE IF ~HasKey(goal, "description") THEN KeyError("missing goal.description field")
             ELSE IF ~HasKey(goal, "completion_criteria")
                  THEN KeyError("missing goal.completion_criteria field")
             ELSE LET criteria == Get(goal, "completion_criteria")
                  IN  IF ~IsDict(criteria) THEN ValueError("completion_criteria must be a dict")
                      ELSE LET missing == FirstMissing(required_criteria_fields, criteria)
                           IN  IF missing # <<>>
                               THEN KeyError("missing completion_criteria." \o missing[1] \o " field")
                               ELSE Valid

validate_goal_breakdown(data) ==
    IF ~IsDict(data) THEN ValueError("the data must be a dict")
    ELSE IF ValidateGoal(data) # Valid THEN ValidateGoal(data)
    ELSE ValidatePhases(data)

(***************************************************************************)
(* generate_goal_breakdown (lines 231-326)                                 *)
(***************************************************************************)
\* Lines 279-284.
ExtractBreakdownText(response_text) ==
    IF Contains(response_text, Fence \o "json")
    THEN Strip(SplitPiece0(SplitPiece1(response_text, Fence \o "json"), Fence))
    ELSE IF Contains(response_text, Fence)
    THEN Strip(SplitPiece1(response_text, Fence))
    ELSE response_text

\* Variant of RenumberPhases that keeps an id the phase already has.
RenumberPhases_KeepGiven(data) ==
    LET phases == Get(data, "phases")[2]
    IN  Put(data, "phases",
            JList([n \in 1..Len(phases) |->
                      IF HasKey(phases[n], "id") THEN phases[n]
                      ELSE Put(phases[n], "id", JStr("p" \o ToString(n)))]))

\* Variant of RenumberPhases that keeps the first two phases only, as a cut
\* to a requested number of phases would.
RenumberPhases_CutToTwo(data) ==
    LET phases == Get(data, "phases")[2]
        count == IF Len(phases) > 2 THEN 2 ELSE Len(phases)
    IN  Put(data, "phases",
            JList([n \in 1..count |-> Put(phases[n], "id", JStr("p" \o ToString(n)))]))

\* Lines 295-296: every phase gets the id "p<position>".
RenumberPhases(data) ==
    LET phases == Get(data, "phases")[2]
    IN  Put(data, "phases",
            JList([n \in 1..Len(phases) |-> Put(phases[n], "id", JStr("p" \o ToString(n)))]))

\* Lines 277-317, on the response text.
BreakdownFromText(text) ==
    LET parsed == JsonLoads(ExtractBreakdownText(text))
    IN  IF ~parsed[1] THEN Raise(MalformedOutput)
        ELSE LET data == parsed[2]
                 verdict == validate_goal_breakdown(data)
             IN  CASE verdict[1] = "KeyError" ->
                        Raise("the generated content lacks a required field: '"
                              \o verdict[2] \o "'")
                   [] verdict[1] = "ValueError" ->
                        Raise("the generated content has a format error: " \o verdict[2])
                   [] OTHER -> Return(RenumberPhases(data))

generate_goal_breakdown(llm) ==
    LET response == get_gemini_response(llm)
    IN  IF Raised(response) THEN response
        ELSE BreakdownFromText(response[2])

(***************************************************************************)
(* process_implementation_data (lines 328-415): <<"ok", plan>>, or         *)
(* <<"ValueError", message>>.                                              *)
(***************************************************************************)
required_fields == <<"id", "name", "why", "phase">>
required_option_fields == <<"id", "name", "difficulty", "time_cost", "actions">>

\* dict.get(key, default)
GetOr(d, k, default) == IF HasKey(d, k) THEN Get(d, k) ELSE default
\* str(d.get('name', '#<position>')) and str(d.get('name'))
NameOrPosition(d, n) == IF HasKey(d, "name") THEN PyStr(Get(d, "name")) ELSE "#" \o ToString(n)
NameOf(d) == PyStr(GetOr(d, "name", JNull))

\* Variant of ProcessOption without the check of lines 395-396: an option
\* with no action passes.
ProcessOption_AllowEmptyActions(dimension, option, j) ==
    IF ~IsDict(option)
    THEN ValueError("dimension " \o NameOf(dimension) \o " option " \o ToString(j)
                    \o " must be a dict")
    ELSE LET missing == MissingFields(required_option_fields, option)
         IN  IF missing # <<>>
             THEN ValueError("option " \o NameOrPosition(option, j)
                             \o " lacks required fields: " \o JoinWith(missing, ", "))
             ELSE IF ~IsList(Get(option, "actions"))
             THEN ValueError("option " \o NameOf(option) \o " actions must be a list")
             ELSE <<"ok", JDict(<< <<"id", Get(option, "id")>>,
                                   <<"name", Get(option, "name")>>,
                                   <<"difficulty", GetOr(option, "difficulty", JInt(1))>>,
                                   <<"time_cost", GetOr(option, "time_cost", JStr(""))>>,
                                   <<"actions", GetOr(option, "actions", JList(<<>>))>> >>)>>

\* Lines 373-396: one option, j its 1-based position.
ProcessOption(dimension, option, j) ==
    IF ~IsDict(option)
    THEN ValueError("dimension " \o NameOf(dimension) \o " option " \o ToString(j)
                    \o " must be a dict")
    ELSE LET missing == MissingFields(required_option_fields, option)
         IN  IF missing # <<>>
             THEN ValueError("option " \o NameOrPosition(option, j)
                             \o " lacks required fields: " \o JoinWith(missing, ", "))
             ELSE IF ~IsList(Get(option, "actions"))
             THEN ValueError("option " \o NameOf(option) \o " actions must be a list")
             ELSE IF Get(option, "actions")[2] = <<>>
             THEN ValueError("option " \o NameOf(option) \o " actions must not be empty")
             ELSE <<"ok", JDict(<< <<"id", Get(option, "id")>>,
                                   <<"name", Get(option, "name")>>,
                                   <<"difficulty", GetOr(option, "difficulty", JInt(1))>>,
                                   <<"time_cost", GetOr(option, "time_cost", JStr(""))>>,
                                   <<"actions", GetOr(option, "actions", JList(<<>>))>> >>)>>

\* Variant of ProcessDimension that requires only id and name, so that a
\* dimension without why or phase gets the defaults of lines 359-360.
ProcessDimension_DefaultWhy(dimension, i) ==
    IF ~IsDict(dimension) THEN ValueError("dimension " \o ToString(i) \o " must be a dict")
    ELSE LET missing == MissingFields(<<"id", "name">>, dimension)
         IN  IF missing # <<>>
             THEN ValueError("dimension " \o NameOrPosition(dimension, i)
                             \o " lacks required fields: " \o JoinWith(missing, ", "))
             ELSE IF ~HasKey(dimension, "options")
             THEN ValueError("dimension " \o NameOf(dimension) \o " lacks the options field")
             ELSE IF ~IsList(Get(dimension, "options"))
             THEN ValueError("dimension " \o NameOf(dimension) \o " options must be a list")
             ELSE LET options == Get(dimension, "options")[2]
                      done == [j \in 1..Len(options) |-> ProcessOption(dimension, options[j], j)]
                      bad == {j \in 1..Len(options) : done[j][1] # "ok"}
                  IN  IF bad # {} THEN done[Min(bad)]
                      ELSE IF options = <<>>
                      THEN ValueError("dimension " \o NameOf(dimension)
                                      \o " must hold at least one option")
                      ELSE <<"ok", JDict(<< <<"id", GetOr(dimension, "id", JNull)>>,
                                            <<"name", GetOr(dimension, "name", JNull)>>,
                                            <<"why", GetOr(dimension, "why", JStr(""))>>,
                                            <<"phase", GetOr(dimension, "phase", JStr("p1"))>>,
                                            <<"options",
                                              JList([j \in 1..Len(options) |-> done[j][2]])>> >>)>>

\* Lines 346-404: one dimension, i its 1-based position.
ProcessDimension(dimension, i) ==
    IF ~IsDict(dimension) THEN ValueError("dimension " \o ToString(i) \o " must be a dict")
    ELSE LET missing == MissingFields(required_fields, dimension)
         IN  IF missing # <<>>
             THEN ValueError("dimension " \o NameOrPosition(dimension, i)
                             \o " lacks required fields: " \o JoinWith(missing, ", "))
             ELSE IF ~HasKey(dimension, "options")
             THEN ValueError("dimension " \o NameOf(dimension) \o " lacks the options field")
             ELSE IF ~IsList(Get(dimension, "options"))
             THEN ValueError("dimension " \o NameOf(dimension) \o " options must be a list")
             ELSE LET options == Get(dimension, "options")[2]
                      done == [j \in 1..Len(options) |-> ProcessOption(dimension, options[j], j)]
                      bad == {j \in 1..Len(options) : done[j][1] # "ok"}
                  IN  IF bad # {} THEN done[Min(bad)]
                      ELSE IF options = <<>>
                      THEN ValueError("dimension " \o NameOf(dimension)
                                      \o " must hold at least one option")
                      ELSE <<"ok", JDict(<< <<"id", GetOr(dimension, "id", JNull)>>,
                                            <<"name", GetOr(dimension, "name", JNull)>>,
                                            <<"why", GetOr(dimension, "why", JStr(""))>>,
                                            <<"phase", GetOr(dimension, "phase", JStr("p1"))>>,
                                            <<"options",
                                              JList([j \in 1..Len(options) |-> done[j][2]])>> >>)>>

\* Variant of ProcessDimensions without the check of lines 407-408: a plan of
\* no dimension passes.
ProcessDimensions_AllowEmpty(data) ==
    IF ~IsDict(data) THEN ValueError("the input data must be a dict")
    ELSE IF ~HasKey(data, "dimensions") THEN ValueError("the data lacks the dimensions field")
    ELSE IF ~IsList(Get(data, "dimensions")) THEN ValueError("dimensions must be a list")
    ELSE LET dimensions == Get(data, "dimensions")[2]
             done == [i \in 1..Len(dimensions) |-> ProcessDimension(dimensions[i], i)]
             bad == {i \in 1..Len(dimensions) : done[i][1] # "ok"}
         IN  IF bad # {} THEN done[Min(bad)]
             ELSE <<"ok", JDict(<< <<"dimensions",
                                     JList([i \in 1..Len(dimensions) |-> done[i][2]])>> >>)>>

\* Lines 333-411, before the exception is wrapped.
ProcessDimensions(data) ==
    IF ~IsDict(data) THEN ValueError("the input data must be a dict")
    ELSE IF ~HasKey(data, "dimensions") THEN ValueError("the data lacks the dimensions field")
    ELSE IF ~IsList(Get(data, "dimensions")) THEN ValueError("dimensions must be a list")
    ELSE LET dimensions == Get(data, "dimensions")[2]
             done == [i \in 1..Len(dimensions) |-> ProcessDimension(dimensions[i], i)]
             bad == {i \in 1..Len(dimensions) : done[i][1] # "ok"}
         IN  IF bad # {} THEN done[Min(bad)]
             ELSE IF dimensions = <<>>
             THEN ValueError("the processed data must hold at least one dimension")
             ELSE <<"ok", JDict(<< <<"dimensions",
                                     JList([i \in 1..Len(dimensions) |-> done[i][2]])>> >>)>>

process_implementation_data(data) ==
    LET r == ProcessDimensions(data)
    IN  IF r[1] = "ok" THEN r ELSE ValueError("error processing the data: " \o r[2])

(***************************************************************************)
(* generate_implementation_plan (lines 417-504)                            *)
(***************************************************************************)
\* Lines 450-453.
ExtractPlanText(response_text) ==
    IF Contains(response_text, Fence \o "json")
    THEN Strip(SplitPiece0(SplitPiece1(response_text, Fence \o "json"), Fence))
    ELSE IF Contains(response_text, Fence)
    THEN Strip(SplitPiece0(SplitPiece1(response_text, Fence), Fence))
    ELSE response_text

\* Lines 456-467: comment lines and blank lines dropped, the rest of a line
\* after "//" dropped, every line stripped.
CleanLine(line) ==
    IF Contains(line, "//") THEN Strip(SplitPiece0(line, "//")) ELSE Strip(line)
StripComments(response_text) ==
    LET all == SplitLines(response_text, 0)
        kept == SelectSeq(all, LAMBDA line : ~StartsWith(Strip(line), "//") /\ Strip(line) # "")
    IN  JoinLines([n \in 1..Len(kept) |-> CleanLine(kept[n])])

\* Line 475.
RepairTrailingCommas(cleaned_text) ==
    ReplaceCommaBefore(ReplaceCommaBefore(cleaned_text, "]"), "}")

\* Lines 470-476: <<FALSE, _>> where the second json.loads raises too.
ParsePlanText(cleaned_text) ==
    LET strict == JsonLoads(cleaned_text)
    IN  IF strict[1] THEN strict ELSE JsonLoads(RepairTrailingCommas(cleaned_text))

\* Lines 446-495, on the response text.
PlanFromText(text) ==
    LET parsed == ParsePlanText(StripComments(ExtractPlanText(Strip(text))))
    IN  IF ~parsed[1] THEN Raise(MalformedOutput)
        ELSE LET processed == process_implementation_data(parsed[2])
             IN  IF processed[1] = "ok" THEN Return(processed[2]) ELSE Raise(processed[2])

generate_implementation_plan(llm) ==
    LET response == get_gemini_response(llm)
    IN  IF Raised(response) THEN response
        ELSE PlanFromText(response[2])

(***************************************************************************)
(* The LLM responses the generators are run on.  A request is              *)
(* <<generator, wrap, doc>>: doc describes the JSON document the model     *)
(* wrote, wrap the decoration around it (a code fence, prose, nothing).    *)
(***************************************************************************)
MaxQuestions == 2
MaxConcerns == 2

QuestionFields == <<"id", "question", "purpose", "expected_insight">>
\* The value the model gave a field of a question: an id that is not the
\* entry's position, and texts that are not the repair defaults.
QuestionFieldText(f) ==
    CASE f = "id" -> "\"id\": \"7\""
      [] f = "question" -> "\"question\": \"Why this goal?\""
      [] f = "purpose" -> "\"purpose\": \"motivation\""
      [] f = "expected_insight" -> "\"expected_insight\": \"the reason\""
QuestionEntries ==
    {<<"map", S>> : S \in SUBSET {"id", "question", "purpose", "expected_insight"}}
    \cup {<<"other", "int">>, <<"other", "str">>, <<"other", "null">>}
QuestionEntryText(e) ==
    IF e[1] = "map"
    THEN LET present == SelectSeq(QuestionFields, LAMBDA f : f \in e[2])
         IN  "{" \o JoinWith([n \in 1..Len(present) |-> QuestionFieldText(present[n])], ", ") \o "}"
    ELSE CASE e[2] = "int" -> "5" [] e[2] = "str" -> "\"What next?\"" [] e[2] = "null" -> "null"

QuestionShapes ==
    {"empty_object", "no_questions", "analysis_int", "analysis_str", "analysis_list",
     "concerns_int", "concerns_str", "concerns_dict", "questions_dict", "questions_str",
     "questions_null", "array", "scalar", "string"}
QuestionShapeText(name) ==
    CASE name = "empty_object" -> "{}"
      [] name = "no_questions" -> "{\"analysis\": {\"summary\": \"a plan\"}}"
      [] name = "analysis_int" -> "{\"analysis\": 5}"
      [] name = "analysis_str" -> "{\"analysis\": \"the key_concerns are time\"}"
      [] name = "analysis_list" -> "{\"analysis\": [\"key_concerns\"]}"
      [] name = "concerns_int" -> "{\"analysis\": {\"key_concerns\": 5}}"
      [] name = "concerns_str" -> "{\"analysis\": {\"key_concerns\": \"ab\"}}"
      [] name = "concerns_dict" -> "{\"analysis\": {\"key_concerns\": {\"time\": 1}}}"
      [] name = "questions_dict" -> "{\"questions\": {\"id\": \"1\"}}"
      [] name = "questions_str" -> "{\"questions\": \"none\"}"
      [] name = "questions_null" -> "{\"questions\": null}"
      [] name = "array" -> "[{\"id\": \"1\", \"question\": \"Why?\"}]"
      [] name = "scalar" -> "42"
      [] name = "string" -> "\"hello\""

ConcernText(n) == "\"concern " \o ToString(n) \o "\""

Lists(S, max) == UNION {[1..n -> S] : n \in 0..max}

QuestionDocs ==
    {<<"list", es>> : es \in Lists(QuestionEntries, MaxQuestions)}
    \cup {<<"concerns", n>> : n \in 0..MaxConcerns}
    \cup {<<"shape", name>> : name \in QuestionShapes}
QuestionDocText(doc) ==
    CASE doc[1] = "list" ->
            "{\"questions\": ["
            \o JoinWith([n \in 1..Len(doc[2]) |-> QuestionEntryText(doc[2][n])], ", ") \o "]}"
      [] doc[1] = "concerns" ->
            "{\"analysis\": {\"key_concerns\": ["
            \o JoinWith([n \in 1..doc[2] |-> ConcernText(n)], ", ") \o "]}}"
      [] doc[1] = "shape" -> QuestionShapeText(doc[2])

\* Texts that hold no JSON document.
RawTexts == {"empty", "blank", "prose", "truncated", "braces"}
RawText(name) ==
    CASE name = "empty" -> ""
      [] name = "blank" -> " \n\t"
      [] name = "prose" -> "Sorry, I cannot help with that."
      [] name = "truncated" -> "{\"questions\": [{\"id\": \"1\","
      [] name = "braces" -> "{not json}"

Wraps ==
    {"bare", "padded", "fence_json", "fence_plain", "fence_other", "fence_one_line",
     "prose_fence", "fence_prose", "prose_fence_prose", "prose_bare", "one_marker",
     "trailing_marker", "brace_prose_fence"}
WrapText(wrap, body) ==
    CASE wrap = "bare" -> body
      [] wrap = "padded" -> "\n  " \o body \o " \n"
      [] wrap = "fence_json" -> "~~~json\n" \o body \o "\n~~~"
      [] wrap = "fence_plain" -> "~~~\n" \o body \o "\n~~~"
      [] wrap = "fence_other" -> "~~~javascript\n" \o body \o "\n~~~"
      [] wrap = "fence_one_line" -> "~~~" \o body \o "~~~"
      [] wrap = "prose_fence" -> "Here is the result:\n~~~json\n" \o body \o "\n~~~"
      [] wrap = "fence_prose" -> "~~~json\n" \o body \o "\n~~~\nI hope this helps."
      [] wrap = "prose_fence_prose" ->
            "Here is the result:\n~~~\n" \o body \o "\n~~~\nI hope this helps."
      [] wrap = "prose_bare" -> "Here is the result:\n" \o body \o "\nI hope this helps."
      [] wrap = "one_marker" -> "~~~json\n" \o body
      [] wrap = "trailing_marker" -> body \o "\n~~~"
      [] wrap = "brace_prose_fence" ->
            "The result {draft}:\n~~~json\n" \o body \o "\n~~~"

IsSmallQuestionDoc(doc) == doc[1] # "list" \/ Len(doc[2]) <= 1
QuestionRequests ==
    {<<"questions", "raise", <<"none">> >>}
    \cup {<<"questions", "raw", <<"text", t>> >> : t \in RawTexts}
    \cup {<<"questions", "bare", d>> : d \in QuestionDocs}
    \cup {<<"questions", w, d>> : w \in Wraps, d \in {x \in QuestionDocs : IsSmallQuestionDoc(x)}}

(***************************************************************************)
(* Goal-breakdown documents: <<"bd", goal, phases>>.                       *)
(*   goal:   <<"criteria", S, fill>>: a well-formed goal whose             *)
(*           completion_criteria holds the fields in S, as empty lists     *)
(*           (fill = "empty") or one-element lists (fill = "filled");      *)
(*           <<"goal", defect>>: a goal with the named defect.             *)
(*   phases: <<"phases", ps>>, ps a sequence of <<id kind, defect>>;       *)
(*           <<"phases_shape", defect>>: no list of phases at all.         *)
(***************************************************************************)
MaxPhases == 3

CriteriaFields == {"must_have_skills", "must_complete_tasks", "validation_methods"}
GoalDefects == {"absent", "not_dict", "no_description", "no_criteria", "criteria_not_dict"}
Goals ==
    {<<"criteria", S, fill>> : S \in SUBSET CriteriaFields, fill \in {"empty", "filled"}}
    \cup {<<"goal", d>> : d \in GoalDefects}
FullGoal == <<"criteria", CriteriaFields, "filled">>

IdKinds == {"none", "x", "p9", "p1", "int"}
PhaseDefects ==
    {"not_dict", "no_name", "no_focus", "no_milestones", "no_exit", "focus_str",
     "milestones_dict", "exit_list", "exit_no_skills", "exit_no_tasks"}
PhasesShapes == {"absent", "not_list", "null"}

\* "key": value members, those of omit left out, joined by sep.
Members(pairs, omit, sep) ==
    LET kept == SelectSeq(pairs, LAMBDA p : p[1] \notin omit)
    IN  JoinWith([n \in 1..Len(kept) |-> "\"" \o kept[n][1] \o "\": " \o kept[n][2]], sep)

CriteriaText(S, fill) ==
    "{" \o Members(<< <<"must_have_skills", IF fill = "empty" THEN "[]" ELSE "[\"drawing\"]">>,
                      <<"must_complete_tasks", IF fill = "empty" THEN "[]" ELSE "[\"a portrait\"]">>,
                      <<"validation_methods", IF fill = "empty" THEN "[]" ELSE "[\"review\"]">> >>,
                   CriteriaFields \ S, ", ") \o "}"
\* The "goal" member of the document, as a sequence of 0 or 1 members.
GoalMember(goal) ==
    IF goal[1] = "criteria"
    THEN << <<"goal", "{\"description\": \"learn to paint\", \"completion_criteria\": "
                      \o CriteriaText(goal[2], goal[3]) \o "}">> >>
    ELSE CASE goal[2] = "absent" -> <<>>
           [] goal[2] = "not_dict" -> << <<"goal", "\"learn to paint\"">> >>
           [] goal[2] = "no_description" ->
                << <<"goal", "{\"completion_criteria\": "
                             \o CriteriaText(CriteriaFields, "filled") \o "}">> >>
           [] goal[2] = "no_criteria" -> << <<"goal", "{\"description\": \"learn to paint\"}">> >>
           [] goal[2] = "criteria_not_dict" ->
                << <<"goal", "{\"description\": \"learn to paint\", \"completion_criteria\": [\"drawing\"]}">> >>

PhaseIdText(kind) ==
    CASE kind = "x" -> "\"x\"" [] kind = "p9" -> "\"p9\"" [] kind = "p1" -> "\"p1\""
      [] kind = "int" -> "3" [] kind = "none" -> ""
PhaseText(ph, n) ==
    IF ph[2] = "not_dict" THEN "\"phase " \o ToString(n) \o "\""
    ELSE "{" \o Members(
            << <<"id", PhaseIdText(ph[1])>>,
               <<"name", "\"Phase " \o ToString(n) \o "\"">>,
               <<"focus_dimensions",
                 IF ph[2] = "focus_str" THEN "\"skills\"" ELSE "[\"skill " \o ToString(n) \o "\"]">>,
               <<"milestones",
                 IF ph[2] = "milestones_dict" THEN "{}" ELSE "[\"milestone " \o ToString(n) \o "\"]">>,
               <<"exit_criteria",
                 IF ph[2] = "exit_list" THEN "[]"
                 ELSE "{" \o Members(<< <<"skills_checklist", "[\"check\"]">>,
                                       <<"practical_tasks", "[]">> >>,
                                    CASE ph[2] = "exit_no_skills" -> {"skills_checklist"}
                                      [] ph[2] = "exit_no_tasks" -> {"practical_tasks"}
                                      [] OTHER -> {}, ", ") \o "}">> >>,
            (IF ph[1] = "none" THEN {"id"} ELSE {})
            \cup (CASE ph[2] = "no_name" -> {"name"}
                    [] ph[2] = "no_focus" -> {"focus_dimensions"}
                    [] ph[2] = "no_milestones" -> {"milestones"}
                    [] ph[2] = "no_exit" -> {"exit_criteria"}
                    [] OTHER -> {}),
            ", ") \o "}"
PhasesMember(phases) ==
    IF phases[1] = "phases"
    THEN << <<"phases", "[" \o JoinWith([n \in 1..Len(phases[2]) |-> PhaseText(phases[2][n], n)],
                                        ",\n ") \o "]">> >>
    ELSE CASE phases[2] = "absent" -> <<>>
           [] phases[2] = "not_list" -> << <<"phases", "{\"p1\": \"Phase 1\"}">> >>
           [] phases[2] = "null" -> << <<"phases", "null">> >>
BreakdownDocText(doc) ==
    "{" \o Members(GoalMember(doc[2]) \o PhasesMember(doc[3]), {}, ",\n ") \o "}"

\* Sequences of 1..max good phases of which the one at pos has the defect.
OneDefectPhases ==
    {[k \in 1..n |-> <<"x", IF k = pos THEN d ELSE "ok">>] :
        n \in 1..MaxPhases, pos \in 1..MaxPhases, d \in PhaseDefects}
TwoPhases == <<"phases", << <<"x", "ok">>, <<"none", "ok">> >> >>
BreakdownDocs ==
    {<<"bd", FullGoal, <<"phases", ps>> >> :
        ps \in Lists({<<k, "ok">> : k \in IdKinds}, MaxPhases)}
    \cup {<<"bd", g, ph>> : g \in Goals, ph \in {<<"phases", <<>> >>, TwoPhases}}
    \cup {<<"bd", FullGoal, <<"phases", ps>> >> : ps \in OneDefectPhases}
    \cup {<<"bd", FullGoal, <<"phases_shape", d>> >> : d \in PhasesShapes}
WrappedBreakdownDocs ==
    {<<"bd", FullGoal, TwoPhases>>, <<"bd", FullGoal, <<"phases", <<>> >> >>,
     <<"bd", <<"criteria", {"must_have_skills"}, "empty">>, TwoPhases>>}
BreakdownRequests ==
    {<<"breakdown", "raise", <<"none">> >>}
    \cup {<<"breakdown", "raw", <<"text", t>> >> : t \in RawTexts}
    \cup {<<"breakdown", "bare", d>> : d \in BreakdownDocs}
    \cup {<<"breakdown", w, d>> : w \in Wraps, d \in WrappedBreakdownDocs}

(***************************************************************************)
(* Implementation-plan documents: <<"plan", nd, no, na, hole, style>>: nd  *)
(* dimensions of no options of na actions each, except at the hole:        *)
(*   <<"none">>; <<"dim", i>>: dimension i has no option; <<"opt", i, j>>: *)
(*   option j of dimension i has no action; <<"dimdefect", i, d>> and      *)
(*   <<"optdefect", i, j, d>>: the named defect there.                     *)
(* style is how the model laid the text out (see PlanStyles).  The values  *)
(* the model gives differ from the defaults of the dict.get calls of       *)
(* process_implementation_data (why "", phase "p1", difficulty 1,          *)
(* time_cost "").                                                          *)
(***************************************************************************)
MaxDimensions == 2
MaxOptions == 2
MaxActions == 2

DimensionDefects ==
    {"not_dict", "no_id", "no_name", "no_why", "no_phase", "no_options", "options_dict",
     "no_why_no_phase", "null_why"}
OptionDefects ==
    {"not_dict", "no_id", "no_name", "no_difficulty", "no_time_cost", "no_actions",
     "actions_str", "actions_dict", "no_name_no_actions"}
PlanShapes == {"no_dimensions", "dimensions_dict", "array", "scalar"}
\* compact: one line.  lines: one member or element per line.  trailing_*: a
\* comma after the last element of every non-empty actions list and after the
\* last member of every option, directly before the bracket (tight), with a
\* space (space) or a line break (lines) in between.  comments: lines, with
\* "//" comment lines and an inline comment.  url, url_lines: a "why" text that
\* holds "//".  bracket_string: a "why" text that holds ",]" and ",}";
\* bracket_trailing: the same with the tight trailing commas.
PlanStyles ==
    {"compact", "lines", "trailing_tight", "trailing_space", "trailing_lines", "comments",
     "url", "url_lines", "bracket_string", "bracket_trailing"}
StyleSep(style) ==
    IF style \in {"lines", "trailing_lines", "comments", "url_lines"} THEN ",\n  " ELSE ", "
StyleTrail(style) ==
    CASE style \in {"trailing_tight", "bracket_trailing"} -> ","
      [] style = "trailing_space" -> ", "
      [] style = "trailing_lines" -> ",\n"
      [] OTHER -> ""
WhyText(style, i) ==
    CASE style \in {"url", "url_lines"} -> "\"see http://example.com/" \o ToString(i) \o "\""
      [] style \in {"bracket_string", "bracket_trailing"} -> "\"covers [a,] and {b,}\""
      [] OTHER -> "\"reason " \o ToString(i) \o "\""

HoleAt(hole, kind, i, j) ==
    /\ hole[1] = kind
    /\ hole[2] = i
    /\ (kind \in {"dim", "dimdefect"} \/ hole[3] = j)
ActionsText(doc, i, j) ==
    LET na == IF HoleAt(doc[5], "opt", i, j) THEN 0 ELSE doc[4]
    IN  IF na = 0 THEN "[]"
        ELSE "[" \o JoinWith([k \in 1..na |-> "\"action " \o ToString(k) \o "\""], StyleSep(doc[6]))
                 \o StyleTrail(doc[6]) \o "]"
OptionText(doc, i, j) ==
    LET d == IF HoleAt(doc[5], "optdefect", i, j) THEN doc[5][4] ELSE "ok"
    IN  IF d = "not_dict" THEN "\"Option " \o ToString(j) \o "\""
        ELSE "{" \o Members(
                << <<"id", "\"d" \o ToString(i) \o "o" \o ToString(j) \o "\"">>,
                   <<"name", "\"Option " \o ToString(j) \o "\"">>,
                   <<"difficulty", ToString(j + 1)>>,
                   <<"time_cost", "\"" \o ToString(j) \o "h\"">>,
                   <<"actions", CASE d = "actions_str" -> "\"practice\""
                                  [] d = "actions_dict" -> "{}"
                                  [] OTHER -> ActionsText(doc, i, j)>> >>,
                CASE d = "no_id" -> {"id"} [] d = "no_name" -> {"name"}
                  [] d = "no_difficulty" -> {"difficulty"} [] d = "no_time_cost" -> {"time_cost"}
                  [] d = "no_actions" -> {"actions"}
                  [] d = "no_name_no_actions" -> {"name", "actions"}
                  [] OTHER -> {},
                StyleSep(doc[6])) \o StyleTrail(doc[6]) \o "}"
OptionsText(doc, i) ==
    LET no == IF HoleAt(doc[5], "dim", i, 0) THEN 0 ELSE doc[3]
    IN  "[" \o JoinWith([j \in 1..no |-> OptionText(doc, i, j)], StyleSep(doc[6])) \o "]"
DimensionText(doc, i) ==
    LET d == IF HoleAt(doc[5], "dimdefect", i, 0) THEN doc[5][3] ELSE "ok"
    IN  IF d = "not_dict" THEN "\"Dimension " \o ToString(i) \o "\""
        ELSE "{" \o Members(
                << <<"id", "\"d" \o ToString(i) \o "\"">>,
                   <<"name", "\"Dimension " \o ToString(i) \o "\""
                             \o (IF doc[6] = "comments" THEN ", // the name" ELSE "")>>,
                   <<"why", IF d = "null_why" THEN "null" ELSE WhyText(doc[6], i)>>,
                   <<"phase", "\"p" \o ToString(i + 1) \o "\"">>,
                   <<"options", IF d = "options_dict" THEN "{}" ELSE OptionsText(doc, i)>> >>,
                CASE d = "no_id" -> {"id"} [] d = "no_name" -> {"name"} [] d = "no_why" -> {"why"}
                  [] d = "no_phase" -> {"phase"} [] d = "no_options" -> {"options"}
                  [] d = "no_why_no_phase" -> {"why", "phase"}
                  [] OTHER -> {},
                IF doc[6] = "comments" THEN "\n  " ELSE StyleSep(doc[6])) \o "}"
PlanShapeText(name) ==
    CASE name = "no_dimensions" -> "{\"plan\": []}"
      [] name = "dimensions_dict" -> "{\"dimensions\": {\"d1\": 1}}"
      [] name = "array" -> "[{\"id\": \"d1\"}]"
      [] name = "scalar" -> "42"
PlanDocText(doc) ==
    IF doc[1] = "plan_shape" THEN PlanShapeText(doc[2])
    ELSE "{" \o (IF doc[6] = "comments" THEN "\n// the plan\n\n  // its dimensions\n" ELSE "")
         \o "\"dimensions\": ["
         \o JoinWith([i \in 1..doc[2] |-> DimensionText(doc, i)], StyleSep(doc[6])) \o "]}"

PlanHoles(nd, no) ==
    {<<"none">>} \cup {<<"dim", i>> : i \in 1..nd}
    \cup {<<"opt", i, j>> : i \in 1..nd, j \in 1..no}
PlanDefects(nd, no) ==
    {<<"dimdefect", i, d>> : i \in 1..nd, d \in DimensionDefects}
    \cup {<<"optdefect", i, j, d>> : i \in 1..nd, j \in 1..no, d \in OptionDefects}
PlanDocs ==
    {<<"plan", nd, no, na, h, "compact">> :
        nd \in 0..MaxDimensions, no \in 1..MaxOptions, na \in 1..MaxActions,
        h \in PlanHoles(MaxDimensions, MaxOptions)}
    \cup {<<"plan", MaxDimensions, MaxOptions, 1, h, "compact">> :
            h \in PlanDefects(MaxDimensions, MaxOptions)}
    \cup {<<"plan", nd, no, MaxActions, <<"none">>, st>> :
            nd \in 1..MaxDimensions, no \in 1..MaxOptions, st \in PlanStyles}
    \cup {<<"plan_shape", name>> : name \in PlanShapes}
IsPlanDoc(doc) ==
    doc[1] = "plan_shape"
    \/ (doc[5][1] \in {"none", "dimdefect"})
    \/ (doc[5][1] = "dim" /\ doc[5][2] <= doc[2])
    \/ (doc[5][1] = "opt" /\ doc[5][2] <= doc[2] /\ doc[5][3] <= doc[3])
    \/ (doc[5][1] = "optdefect")
WrappedPlanDocs ==
    {<<"plan", 1, 1, 1, <<"none">>, st>> : st \in {"compact", "lines", "url"}}
    \cup {<<"plan", 1, 1, 1, <<"opt", 1, 1>>, "compact">>}
PlanRequests ==
    {<<"plan", "raise", <<"none">> >>}
    \cup {<<"plan", "raw", <<"text", t>> >> : t \in RawTexts}
    \cup {<<"plan", "bare", d>> : d \in {x \in PlanDocs : IsPlanDoc(x)}}
    \cup {<<"plan", w, d>> : w \in Wraps, d \in WrappedPlanDocs}

Requests == QuestionRequests \cup BreakdownRequests \cup PlanRequests

DocText(r) ==
    CASE r[1] = "questions" -> QuestionDocText(r[3])
      [] r[1] = "breakdown" -> BreakdownDocText(r[3])
      [] r[1] = "plan" -> PlanDocText(r[3])
\* The answer of the LLM client to request r.
ResponseOf(r) ==
    CASE r[2] = "raise" -> LlmRaise
      [] r[2] = "raw" -> LlmText(RawText(r[3][2]))
      [] OTHER -> LlmText(WrapText(r[2], DocText(r)))

(***************************************************************************)
(* The state machine: one generation call at a time.                       *)
(***************************************************************************)
NoRequest == <<"none", "none", <<"none">> >>
NoOutcome == <<"none">>

(***************************************************************************)
(* The stages of a call.  Each stage operator gives <<next stage, work,    *)
(* result>>; the result DefaultSet stands for                              *)
(* `return get_default_questions()`.                                       *)
(***************************************************************************)
Callers == {"a", "b"}
\* The cap on the LLM calls of one caller that the model follows.
MaxCalls == 2
NoWork == <<"none">>
NoObject == <<"none">>
DefaultSet == <<"default">>
PromptFailed == "error generating the prompt, please retry"

\* Variant of DefaultObject in which get_default_questions returns one
\* module-level dict to every call.
DefaultObject_Shared(c) == "module"

\* The object `return get_default_questions()` hands to caller c: the dict
\* literal of lines 208-229 is evaluated in every call, so each call gets an
\* object of its own.
DefaultObject(c) == c
ObjectIds == Callers \cup {"module"}

\* Lines 99, 237-258, 422-431: the prompt is built, or building it raises.
PromptStage(gen, built) ==
    IF built THEN <<"call", NoWork, NoOutcome>>
    ELSE IF gen = "questions" THEN <<"done", NoWork, DefaultSet>>
    ELSE <<"done", NoWork, Raise(PromptFailed)>>

\* Variant of CallStage that calls the LLM again when the call failed.
CallStage_Retry(gen, llm) ==
    IF gen = "questions"
    THEN IF llm = LlmRaise THEN <<"call", NoWork, NoOutcome>>
         ELSE <<"extract", llm[2], NoOutcome>>
    ELSE LET response == get_gemini_response(llm)
         IN  IF Raised(response) THEN <<"call", NoWork, NoOutcome>>
             ELSE <<"extract", response[2], NoOutcome>>

\* Lines 103, 260-271, 433-443: the one LLM call.
CallStage(gen, llm) ==
    IF gen = "questions"
    THEN IF llm = LlmRaise THEN <<"done", NoWork, DefaultSet>>
         ELSE <<"extract", llm[2], NoOutcome>>
    ELSE LET response == get_gemini_response(llm)
         IN  IF Raised(response) THEN <<"done", NoWork, response>>
             ELSE <<"extract", response[2], NoOutcome>>

\* Lines 107-124, 274-284, 446-467.
ExtractStage(gen, text) ==
    CASE gen = "questions" ->
            IF Strip(text) = "" THEN <<"done", NoWork, DefaultSet>>
            ELSE <<"parse", ExtractQuestionsText(Strip(text)), NoOutcome>>
      [] gen = "breakdown" -> <<"parse", ExtractBreakdownText(text), NoOutcome>>
      [] gen = "plan" -> <<"parse", StripComments(ExtractPlanText(Strip(text))), NoOutcome>>

\* Lines 127-152, 287 and 300-305, 470-476 and 484-489.
ParseStage(gen, text) ==
    LET parsed == CASE gen = "questions" -> ParseQuestionsText(text)
                    [] gen = "breakdown" -> JsonLoads(text)
                    [] gen = "plan" -> ParsePlanText(text)
    IN  IF parsed[1] THEN <<"validate", parsed[2], NoOutcome>>
        ELSE IF gen = "questions" THEN <<"done", NoWork, DefaultSet>>
        ELSE <<"done", NoWork, Raise(MalformedOutput)>>

\* Lines 155-177, 291 and 306-317, 479-495.
ValidateStage(gen, data) ==
    CASE gen = "questions" ->
            IF ~IsDict(data) THEN <<"done", NoWork, DefaultSet>>
            ELSE LET built == IF HasKey(data, "questions") THEN <<"ok", data>>
                              ELSE QuestionsFromAnalysis(data)
                 IN  IF built[1] = "default" THEN <<"done", NoWork, DefaultSet>>
                     ELSE IF ~IsList(Get(built[2], "questions"))
                     THEN <<"done", NoWork, DefaultSet>>
                     ELSE <<"repair", built[2], NoOutcome>>
      [] gen = "breakdown" ->
            LET verdict == validate_goal_breakdown(data)
            IN  CASE verdict[1] = "KeyError" ->
                        <<"done", NoWork,
                          Raise("the generated content lacks a required field: '"
                                \o verdict[2] \o "'")>>
                  [] verdict[1] = "ValueError" ->
                        <<"done", NoWork,
                          Raise("the generated content has a format error: " \o verdict[2])>>
                  [] OTHER -> <<"repair", data, NoOutcome>>
      [] gen = "plan" ->
            LET processed == process_implementation_data(data)
            IN  IF processed[1] = "ok" THEN <<"done", NoWork, Return(processed[2])>>
                ELSE <<"done", NoWork, Raise(processed[2])>>

\* Lines 180-200, 295-298.
RepairStage(gen, data) ==
    IF gen = "questions"
    THEN LET questions == Get(data, "questions")[2]
         IN  <<"done", NoWork,
               Return(Put(data, "questions",
                          JList([n \in 1..Len(questions) |->
                                    RepairQuestion(n - 1, questions[n])])))>>
    ELSE <<"done", NoWork, Return(RenumberPhases(data))>>

\* The requests the callers make.
StagedRequests ==
    {<<"questions", "raise", <<"none">> >>,
     <<"questions", "raw", <<"text", "prose">> >>,
     <<"questions", "fence_json", <<"list", << <<"map", {"question"}>> >> >> >>,
     <<"questions", "bare", <<"shape", "questions_str">> >>,
     <<"breakdown", "raise", <<"none">> >>,
     <<"breakdown", "raw", <<"text", "empty">> >>,
     <<"breakdown", "fence_json", <<"bd", FullGoal, TwoPhases>> >>,
     <<"breakdown", "bare", <<"bd", <<"criteria", {"must_have_skills"}, "empty">>, TwoPhases>> >>,
     <<"breakdown", "prose_bare", <<"bd", FullGoal, TwoPhases>> >>,
     <<"plan", "raise", <<"none">> >>,
     <<"plan", "raw", <<"text", "braces">> >>,
     <<"plan", "bare", <<"plan", 1, 1, 2, <<"none">>, "trailing_tight">> >>,
     <<"plan", "fence_json", <<"plan", 1, 1, 1, <<"opt", 1, 1>>, "compact">> >>}

(***************************************************************************)
(* The goals table and the requests to the goal endpoints (main.py,        *)
(* routers/goals.py, models.py).  A row holds the columns the endpoints    *)
(* read and write; created_at and updated_at are left out, no endpoint     *)
(* decides anything on them.                                               *)
(***************************************************************************)
Users == {"u1", "u2"}
MaxGoals == 2
MaxInFlight == 1
GoalIds == 1..MaxGoals
Wishes == {"run"}
Outcomes == {"done"}
\* The answers a breakdown request carries: none, or one answered question.
AnswerLists ==
    {JList(<<>>),
     JList(<<JDict(<< <<"question", JStr("q")>>, <<"answer", JStr("a")>> >>)>>)}

\* models.py, lines 19-20: the id column is the integer primary key of an
\* SQLite table, so a new row gets the largest id in the table plus one.
NewId == IF goals = {} THEN 1 ELSE Max({g.id : g \in goals}) + 1

\* models.Goal(**goal.dict(), user_id=current_user.id): the three JSON
\* columns start as NULL.
NewGoal(u, wish, wanted) ==
    [id |-> NewId, user_id |-> u, wish |-> wish, outcome |-> wanted,
     questions_answers |-> JNull, goal_breakdown |-> JNull,
     implementation_plan |-> JNull]

\* select().where(Goal.id == goal_id, Goal.user_id == current_user.id)
SelectGoal(goal_id, u) == {g \in goals : g.id = goal_id /\ g.user_id = u}
\* result.first()
First(rows) == CHOOSE g \in rows : TRUE
\* Python's truth value of a JSON column: None and the empty list or dict
\* are false.
Falsy(v) == v = JNull \/ v = JList(<<>>) \/ v = JDict(<<>>)

\* What the LLM answers to the endpoints' generators: per generator one
\* answer that gives a result and one that does not.
EndpointRequests ==
    {<<"questions", "raise", <<"none">> >>,
     <<"questions", "fence_json", <<"list", << <<"map", {"question"}>> >> >> >>,
     <<"breakdown", "fence_json", <<"bd", FullGoal, TwoPhases>> >>,
     <<"breakdown", "prose_bare", <<"bd", FullGoal, TwoPhases>> >>,
     <<"plan", "raw", <<"text", "braces">> >>,
     <<"plan", "bare", <<"plan", 1, 1, 2, <<"none">>, "trailing_tight">> >>}
\* What the generators give once the LLM has answered (or failed to).
BreakdownReplies ==
    {generate_goal_breakdown(ResponseOf(r)) :
        r \in {q \in EndpointRequests : q[1] = "breakdown"}}
PlanReplies ==
    {generate_implementation_plan(ResponseOf(r)) :
        r \in {q \in EndpointRequests : q[1] = "plan"}}
QuestionReplies ==
    {generate_questions(ResponseOf(r)) :
        r \in {q \in EndpointRequests : q[1] = "questions"}}

\* str(e) of an HTTPException (Starlette): the status code, a colon, the detail.
StatusText(status) ==
    CASE status = 400 -> "400"
      [] status = 403 -> "403"
      [] status = 404 -> "404"
      [] status = 500 -> "500"
HttpText(status, detail) == StatusText(status) \o ": " \o detail

GoalNotFound == "Goal not found"
GoalMissing == "the goal does not exist"
BreakdownFirst == "the goal breakdown must be completed first"
AnswersFirst == "please answer the questions first"
NoPermission == "no permission to access this goal"
RegenerateFailed == "error generating the goal breakdown: "

NoResponse ==
    [user |-> "nobody", endpoint |-> "none", goal_id |-> 0, status |-> 0,
     body |-> <<"none">>, llm |-> FALSE]
\* The handler of u's request to endpoint e for goal goal_id sends status and body.
Responds(u, e, goal_id, status, body) ==
    handled' = [user |-> u, endpoint |-> e, goal_id |-> goal_id,
                 status |-> status, body |-> body, llm |-> FALSE]
\* The handler has called the LLM and waits for it; nothing is sent yet.
Awaits(u, e, goal_id, answers) ==
    /\ inflight' = inflight \cup
          {[user |-> u, endpoint |-> e, goal_id |-> goal_id, answers |-> answers]}
    /\ handled' = [user |-> u, endpoint |-> e, goal_id |-> goal_id,
                   status |-> 0, body |-> <<"none">>, llm |-> TRUE]

Init ==
    /\ request = NoRequest
    /\ outcome = NoOutcome
    /\ pc = [c \in Callers |-> "idle"]
    /\ req = [c \in Callers |-> NoRequest]
    /\ calls = [c \in Callers |-> 0]
    /\ work = [c \in Callers |-> NoWork]
    /\ reply = [c \in Callers |-> NoOutcome]
    /\ objects = [o \in ObjectIds |-> NoObject]
    /\ changed = {}
    /\ goals = {}
    /\ inflight = {}
    /\ handled = NoResponse

GenerateQuestions ==
    /\ request = NoRequest
    /\ \E r \in QuestionRequests :
          /\ request' = r
          /\ outcome' = generate_questions(ResponseOf(r))
    /\ UNCHANGED <<staged, stored>>

GenerateGoalBreakdown ==
    /\ request = NoRequest
    /\ \E r \in BreakdownRequests :
          /\ request' = r
          /\ outcome' = generate_goal_breakdown(ResponseOf(r))
    /\ UNCHANGED <<staged, stored>>

GenerateImplementationPlan ==
    /\ request = NoRequest
    /\ \E r \in PlanRequests :
          /\ request' = r
          /\ outcome' = generate_implementation_plan(ResponseOf(r))
    /\ UNCHANGED <<staged, stored>>

Next ==
    \/ GenerateQuestions
    \/ GenerateGoalBreakdown
    \/ GenerateImplementationPlan

Spec == Init /\ [][Next]_vars

(***************************************************************************)
(* The state machine of the staged calls.                                  *)
(***************************************************************************)
\* Caller c goes on as step says; a returned default set is an object.
Proceed(c, step) ==
    /\ pc' = [pc EXCEPT ![c] = step[1]]
    /\ work' = [work EXCEPT ![c] = step[2]]
    /\ IF step[3] = DefaultSet
       THEN /\ reply' = [reply EXCEPT ![c] = Return(<<"ref", DefaultObject(c)>>)]
            /\ objects' = [objects EXCEPT ![DefaultObject(c)] =
                              IF @ = NoObject THEN get_default_questions ELSE @]
       ELSE /\ reply' = [reply EXCEPT ![c] = step[3]]
            /\ UNCHANGED objects
    /\ UNCHANGED <<request, outcome, req, changed, stored>>

Start(c) ==
    /\ pc[c] = "idle"
    /\ \E r \in StagedRequests : req' = [req EXCEPT ![c] = r]
    /\ pc' = [pc EXCEPT ![c] = "prompt"]
    /\ UNCHANGED <<request, outcome, calls, work, reply, objects, changed, stored>>

BuildPrompt(c) ==
    /\ pc[c] = "prompt"
    /\ \E built \in BOOLEAN : Proceed(c, PromptStage(req[c][1], built))
    /\ UNCHANGED calls

CallLlm(c) ==
    /\ pc[c] = "call"
    /\ calls[c] < MaxCalls
    /\ calls' = [calls EXCEPT ![c] = @ + 1]
    /\ Proceed(c, CallStage(req[c][1], ResponseOf(req[c])))

Extract(c) ==
    /\ pc[c] = "extract"
    /\ Proceed(c, ExtractStage(req[c][1], work[c]))
    /\ UNCHANGED calls

Parse(c) ==
    /\ pc[c] = "parse"
    /\ Proceed(c, ParseStage(req[c][1], work[c]))
    /\ UNCHANGED calls

Validate(c) ==
    /\ pc[c] = "validate"
    /\ Proceed(c, ValidateStage(req[c][1], work[c]))
    /\ UNCHANGED calls

Repair(c) ==
    /\ pc[c] = "repair"
    /\ Proceed(c, RepairStage(req[c][1], work[c]))
    /\ UNCHANGED calls

\* The caller of a finished call clears the questions of the default set it got.
ChangeDefault(c) ==
    /\ pc[c] = "done"
    /\ c \notin changed
    /\ reply[c][1] = "return"
    /\ reply[c][2][1] = "ref"
    /\ objects' = [objects EXCEPT ![reply[c][2][2]] = Put(@, "questions", JList(<<>>))]
    /\ changed' = changed \cup {c}
    /\ UNCHANGED <<request, outcome, pc, req, calls, work, reply, stored>>

CallerStep(c) ==
    \/ BuildPrompt(c)
    \/ CallLlm(c)
    \/ Extract(c)
    \/ Parse(c)
    \/ Validate(c)
    \/ Repair(c)

StagedNext == \E c \in Callers : Start(c) \/ CallerStep(c) \/ ChangeDefault(c)

StagedSpec == Init /\ [][StagedNext]_vars

(***************************************************************************)
(* The goal endpoints.  A handler runs without interruption up to its call *)
(* of the LLM, where it is suspended and other requests, of the same user  *)
(* or of another, are handled; it goes on when the LLM has answered.  A    *)
(* Raise(detail) of a generator is its HTTPException(500, detail).         *)
(* Failures of the database itself are not part of the model.              *)
(***************************************************************************)
CanAwait(r) == r \notin inflight /\ Cardinality(inflight) < MaxInFlight
Waiting(u, e, goal_id, answers) ==
    [user |-> u, endpoint |-> e, goal_id |-> goal_id, answers |-> answers]
\* update().where(Goal.id == goal_id).values(...): every row with that id.
UpdateGoal(r, values) ==
    {IF g.id = r.goal_id
        THEN [k \in DOMAIN g |-> IF k \in DOMAIN values THEN values[k] ELSE g[k]]
        ELSE g : g \in goals}
Unstored == UNCHANGED <<request, outcome, staged>>

\* main.py, lines 86-96.
create_goal(u) ==
    /\ NewId <= MaxGoals
    /\ \E wish \in Wishes, wanted \in Outcomes :
          /\ goals' = goals \cup {NewGoal(u, wish, wanted)}
          /\ Responds(u, "create", NewId, 200, <<"rows", {NewGoal(u, wish, wanted)}>>)
    /\ UNCHANGED inflight
    /\ Unstored

\* main.py, lines 98-118, up to the LLM call of generate_questions.
generate_goal_questions(u) ==
    /\ \E goal_id \in GoalIds, built \in BOOLEAN :
          IF SelectGoal(goal_id, u) = {}
          THEN /\ Responds(u, "questions", goal_id, 404, <<"detail", GoalNotFound>>)
               /\ UNCHANGED inflight
          ELSE IF ~built
          THEN /\ Responds(u, "questions", goal_id, 200, <<"value", get_default_questions>>)
               /\ UNCHANGED inflight
          ELSE /\ CanAwait(Waiting(u, "questions", goal_id, JNull))
               /\ Awaits(u, "questions", goal_id, JNull)
    /\ UNCHANGED goals
    /\ Unstored

\* main.py, lines 118-119: the questions are returned, nothing is stored.
generate_goal_questions_resumed(r) ==
    /\ r \in inflight
    /\ r.endpoint = "questions"
    /\ \E o \in QuestionReplies :
          Responds(r.user, "questions", r.goal_id, 200, <<"value", o[2]>>)
    /\ inflight' = inflight \ {r}
    /\ UNCHANGED goals
    /\ Unstored

\* main.py, lines 121-153, up to the LLM call of generate_goal_breakdown;
\* lines 168-173 turn every exception, the 404 too, into a 500.
create_goal_breakdown(u) ==
    /\ \E goal_id \in GoalIds, answers \in AnswerLists, built \in BOOLEAN :
          IF SelectGoal(goal_id, u) = {}
          THEN /\ Responds(u, "breakdown", goal_id, 500,
                           <<"detail", HttpText(404, GoalNotFound)>>)
               /\ UNCHANGED inflight
          ELSE IF ~built
          THEN /\ Responds(u, "breakdown", goal_id, 500,
                           <<"detail", HttpText(500, PromptFailed)>>)
               /\ UNCHANGED inflight
          ELSE /\ CanAwait(Waiting(u, "breakdown", goal_id, answers))
               /\ Awaits(u, "breakdown", goal_id, answers)
    /\ UNCHANGED goals
    /\ Unstored

\* Variant of create_goal_breakdown_resumed that stores the answers before
\* it knows whether the breakdown was generated.
create_goal_breakdown_resumed_AnswersFirst(r) ==
    /\ r \in inflight
    /\ r.endpoint = "breakdown"
    /\ \E o \in BreakdownReplies :
          IF Returned(o)
          THEN /\ goals' = UpdateGoal(r, [questions_answers |-> r.answers,
                                          goal_breakdown |-> o[2]])
               /\ Responds(r.user, "breakdown", r.goal_id, 200, <<"value", o[2]>>)
          ELSE /\ goals' = UpdateGoal(r, [questions_answers |-> r.answers])
               /\ Responds(r.user, "breakdown", r.goal_id, 500,
                           <<"detail", HttpText(500, o[2])>>)
    /\ inflight' = inflight \ {r}
    /\ Unstored

\* main.py, lines 153-173.
create_goal_breakdown_resumed(r) ==
    /\ r \in inflight
    /\ r.endpoint = "breakdown"
    /\ \E o \in BreakdownReplies :
          IF Returned(o)
          THEN /\ goals' = UpdateGoal(r, [questions_answers |-> r.answers,
                                          goal_breakdown |-> o[2]])
               /\ Responds(r.user, "breakdown", r.goal_id, 200, <<"value", o[2]>>)
          ELSE /\ UNCHANGED goals
               /\ Responds(r.user, "breakdown", r.goal_id, 500,
                           <<"detail", HttpText(500, o[2])>>)
    /\ inflight' = inflight \ {r}
    /\ Unstored

\* main.py, lines 175-203, up to the LLM call of generate_implementation_plan.
create_implementation_plan(u) ==
    /\ \E goal_id \in GoalIds, built \in BOOLEAN :
          IF SelectGoal(goal_id, u) = {}
          THEN /\ Responds(u, "implementation", goal_id, 404, <<"detail", GoalMissing>>)
               /\ UNCHANGED inflight
          ELSE IF Falsy(First(SelectGoal(goal_id, u)).goal_breakdown)
          THEN /\ Responds(u, "implementation", goal_id, 400, <<"detail", BreakdownFirst>>)
               /\ UNCHANGED inflight
          ELSE IF ~built
          THEN /\ Responds(u, "implementation", goal_id, 500, <<"detail", PromptFailed>>)
               /\ UNCHANGED inflight
          ELSE /\ CanAwait(Waiting(u, "implementation", goal_id, JNull))
               /\ Awaits(u, "implementation", goal_id, JNull)
    /\ UNCHANGED goals
    /\ Unstored

\* main.py, lines 203-225: the generator's HTTPException is raised again as it is.
create_implementation_plan_resumed(r) ==
    /\ r \in inflight
    /\ r.endpoint = "implementation"
    /\ \E o \in PlanReplies :
          IF Returned(o)
          THEN /\ goals' = UpdateGoal(r, [implementation_plan |-> o[2]])
               /\ Responds(r.user, "implementation", r.goal_id, 200, <<"value", o[2]>>)
          ELSE /\ UNCHANGED goals
               /\ Responds(r.user, "implementation", r.goal_id, 500, <<"detail", o[2]>>)
    /\ inflight' = inflight \ {r}
    /\ Unstored

\* routers/goals.py, lines 19-58, up to the LLM call of generate_goal_breakdown.
regenerate_goal_breakdown(u) ==
    /\ \E goal_id \in GoalIds, built \in BOOLEAN :
          IF SelectGoal(goal_id, u) = {}
          THEN /\ Responds(u, "regenerate", goal_id, 404, <<"detail", GoalMissing>>)
               /\ UNCHANGED inflight
          ELSE IF First(SelectGoal(goal_id, u)).user_id # u
          THEN /\ Responds(u, "regenerate", goal_id, 403, <<"detail", NoPermission>>)
               /\ UNCHANGED inflight
          ELSE IF Falsy(First(SelectGoal(goal_id, u)).questions_answers)
          THEN /\ Responds(u, "regenerate", goal_id, 400, <<"detail", AnswersFirst>>)
               /\ UNCHANGED inflight
          ELSE IF ~built
          THEN /\ Responds(u, "regenerate", goal_id, 500,
                           <<"detail", RegenerateFailed \o HttpText(500, PromptFailed)>>)
               /\ UNCHANGED inflight
          ELSE /\ CanAwait(Waiting(u, "regenerate", goal_id, JNull))
               /\ Awaits(u, "regenerate", goal_id, JNull)
    /\ UNCHANGED goals
    /\ Unstored

\* routers/goals.py, lines 53-77.
regenerate_goal_breakdown_resumed(r) ==
    /\ r \in inflight
    /\ r.endpoint = "regenerate"
    /\ \E o \in BreakdownReplies :
          IF Returned(o)
          THEN /\ goals' = UpdateGoal(r, [goal_breakdown |-> o[2]])
               /\ Responds(r.user, "regenerate", r.goal_id, 200, <<"value", o[2]>>)
          ELSE /\ UNCHANGED goals
               /\ Responds(r.user, "regenerate", r.goal_id, 500,
                           <<"detail", RegenerateFailed \o HttpText(500, o[2])>>)
    /\ inflight' = inflight \ {r}
    /\ Unstored

\* main.py, lines 236-258.
get_goals(u) ==
    /\ Responds(u, "list", 0, 200, <<"rows", {g \in goals : g.user_id = u}>>)
    /\ UNCHANGED <<goals, inflight>>
    /\ Unstored

\* main.py, lines 260-286.
get_goal(u) ==
    /\ \E goal_id \in GoalIds :
          IF SelectGoal(goal_id, u) = {}
          THEN Responds(u, "get", goal_id, 404, <<"detail", GoalNotFound>>)
          ELSE Responds(u, "get", goal_id, 200, <<"rows", {First(SelectGoal(goal_id, u))}>>)
    /\ UNCHANGED <<goals, inflight>>
    /\ Unstored

\* main.py, lines 288-312.
delete_goal(u) ==
    /\ \E goal_id \in GoalIds :
          IF SelectGoal(goal_id, u) = {}
          THEN /\ Responds(u, "delete", goal_id, 404, <<"detail", GoalNotFound>>)
               /\ UNCHANGED goals
          ELSE /\ goals' = {g \in goals : ~(g.id = goal_id /\ g.user_id = u)}
               /\ Responds(u, "delete", goal_id, 200, <<"detail", "Goal deleted successfully">>)
    /\ UNCHANGED inflight
    /\ Unstored

Request(u) ==
    \/ create_goal(u)
    \/ generate_goal_questions(u)
    \/ create_goal_breakdown(u)
    \/ create_implementation_plan(u)
    \/ regenerate_goal_breakdown(u)
    \/ get_goals(u)
    \/ get_goal(u)
    \/ delete_goal(u)

\* The requests that can wait for the LLM.
Waitings ==
    {Waiting(u, e, goal_id, answers) :
        u \in Users, e \in {"questions", "breakdown", "implementation", "regenerate"},
        goal_id \in GoalIds, answers \in AnswerLists \cup {JNull}}

\* The LLM has answered request r, whose handler goes on.
LlmAnswers(r) ==
    \/ generate_goal_questions_resumed(r)
    \/ create_goal_breakdown_resumed(r)
    \/ create_implementation_plan_resumed(r)
    \/ regenerate_goal_breakdown_resumed(r)

StoreNext ==
    \/ \E u \in Users : Request(u)
    \/ \E r \in Waitings : LlmAnswers(r)

StoreSpec == Init /\ [][StoreNext]_vars

(***************************************************************************)
(* Properties.  Each is a statement about the last generation call: the    *)
(* request it ran on and what it handed back.                              *)
(***************************************************************************)
IsQuestions == request[1] = "questions"
IsBreakdown == request[1] = "breakdown"
IsPlan == request[1] = "plan"
\* The JSON document the model wrote, parsed on its own.
DocValue(r) == JsonLoads(DocText(r))
\* The extraction and parse steps of each generator, on the response to r.
PipelineParse(r) ==
    LET text == ResponseOf(r)[2]
    IN  CASE r[1] = "questions" -> ParseQuestionsText(ExtractQuestionsText(Strip(text)))
          [] r[1] = "breakdown" -> JsonLoads(ExtractBreakdownText(text))
          [] r[1] = "plan" -> ParsePlanText(StripComments(ExtractPlanText(Strip(text))))

\* C1: generate_questions never raises: whatever the response text is, and
\* when the LLM client raises, it returns a dict whose "questions" is a list.
C1_QuestionsNeverRaise ==
    IsQuestions =>
        /\ Returned(outcome)
        /\ IsDict(outcome[2])
        /\ HasKey(outcome[2], "questions")
        /\ IsList(Get(outcome[2], "questions"))
\* A response whose "questions" is a string was answered with a list.
C1_Witness ==
    /\ request = <<"questions", "bare", <<"shape", "questions_str">> >>
    /\ Returned(outcome)
    /\ IsList(Get(outcome[2], "questions"))

\* C2: every failure path of generate_questions (the LLM call raises, the
\* response is empty, no parse strategy yields JSON, the parsed value is not a
\* mapping, "questions" is absent with no usable analysis.key_concerns,
\* "questions" is not a list) returns the same default set: exactly three
\* questions with the ids "1", "2", "3" and all four fields.
QuestionFailureShapes ==
    {"empty_object", "no_questions", "analysis_int", "analysis_str", "analysis_list",
     "concerns_int", "questions_dict", "questions_str", "questions_null", "array",
     "scalar", "string"}
IsQuestionFailure(r) ==
    \/ r[2] \in {"raise", "raw", "brace_prose_fence"}
    \/ (r[3][1] = "shape" /\ r[3][2] \in QuestionFailureShapes)
IsCannedSet(v) ==
    /\ IsDict(v)
    /\ Keys(v) = <<"questions">>
    /\ LET qs == Get(v, "questions")
       IN  /\ IsList(qs)
           /\ Len(qs[2]) = 3
           /\ \A n \in 1..3 :
                /\ IsDict(qs[2][n])
                /\ Keys(qs[2][n]) = QuestionFields
                /\ Get(qs[2][n], "id") = JStr(<<"1", "2", "3">>[n])
C2_FailureGivesDefault ==
    (IsQuestions /\ IsQuestionFailure(request)) =>
        /\ outcome = Return(get_default_questions)
        /\ IsCannedSet(outcome[2])
\* A response with an analysis but neither questions nor key_concerns got the default set.
C2_Witness ==
    /\ request = <<"questions", "fence_json", <<"shape", "no_questions">> >>
    /\ outcome = Return(get_default_questions)

\* C3: every element of the returned "questions" list is a mapping that holds
\* id, question, purpose and expected_insight, whatever subset of them the
\* model supplied.
C3_AllFourFields ==
    (IsQuestions /\ Returned(outcome)) =>
        LET qs == Get(outcome[2], "questions")[2]
        IN  \A n \in 1..Len(qs) :
                /\ IsDict(qs[n])
                /\ \A f \in {"id", "question", "purpose", "expected_insight"} : HasKey(qs[n], f)

\* C4: whenever generate_goal_breakdown returns, the ids of the returned
\* phases are "p1", "p2", ..., "pN" in list order, N the number of phases the
\* model wrote, whatever ids (missing, duplicated, not a string) it gave them.
PhaseIds(breakdown) ==
    LET phases == Get(breakdown, "phases")[2]
    IN  [n \in 1..Len(phases) |-> Get(phases[n], "id")]
C4_PhaseIdsSequential ==
    (IsBreakdown /\ Returned(outcome)) =>
        /\ request[3][3][1] = "phases"
        /\ Len(PhaseIds(outcome[2])) = Len(request[3][3][2])
        /\ \A n \in 1..Len(PhaseIds(outcome[2])) :
              PhaseIds(outcome[2])[n] = JStr("p" \o ToString(n))
\* The model's ids "x", "p9", "p9" came back as "p1", "p2", "p3".
C4_Witness ==
    /\ request = <<"breakdown", "bare",
                   <<"bd", FullGoal, <<"phases", << <<"x", "ok">>, <<"p9", "ok">>, <<"p9", "ok">> >> >> >> >>
    /\ Returned(outcome)
    /\ PhaseIds(outcome[2]) = <<JStr("p1"), JStr("p2"), JStr("p3")>>

\* C5: a plan in which some dimension has an empty options list, or some
\* option an empty actions list, is rejected with the error that says so; and
\* every plan returned has at least one option in every dimension and at least
\* one action in every option.
IsHolePlan(r) == r[3][1] = "plan" /\ r[3][5][1] \in {"dim", "opt"}
HoleMessage(hole) ==
    IF hole[1] = "dim"
    THEN "error processing the data: dimension Dimension " \o ToString(hole[2])
         \o " must hold at least one option"
    ELSE "error processing the data: option Option " \o ToString(hole[3])
         \o " actions must not be empty"
C5_EmptyOptionsOrActionsRejected ==
    /\ (IsPlan /\ IsHolePlan(request)) => Raised(outcome)
    /\ (IsPlan /\ IsHolePlan(request) /\ request[2] = "bare") =>
            outcome = Raise(HoleMessage(request[3][5]))
    /\ (IsPlan /\ Returned(outcome)) =>
            LET dims == Get(outcome[2], "dimensions")[2]
            IN  \A i \in 1..Len(dims) :
                    LET options == Get(dims[i], "options")[2]
                    IN  /\ Len(options) >= 1
                        /\ \A j \in 1..Len(options) : Len(Get(options[j], "actions")[2]) >= 1
\* The last option of the last dimension had no action, and the plan was rejected.
C5_Witness ==
    /\ IsPlan
    /\ request[2] = "bare"
    /\ request[3][1] = "plan"
    /\ request[3][2] = MaxDimensions
    /\ request[3][5] = <<"opt", MaxDimensions, MaxOptions>>
    /\ Raised(outcome)

\* C6 (as stated): validation accepts every well-formed plan mapping, for
\* every length of the dimensions list.
IsWellFormedPlan(r) ==
    /\ r[2] = "bare"
    /\ r[3][1] = "plan"
    /\ r[3][5] = <<"none">>
    /\ r[3][6] \in {"compact", "lines"}
C6_AcceptsEveryLength ==
    (IsPlan /\ IsWellFormedPlan(request)) => Returned(outcome)
\* C6 (amended): validation accepts every well-formed plan mapping whose
\* dimensions list is not empty, and returns as many dimensions as it was
\* given; a well-formed mapping whose dimensions list is empty is rejected.
C6_AcceptsNonEmpty ==
    (IsPlan /\ IsWellFormedPlan(request)) =>
        IF request[3][2] >= 1
        THEN /\ Returned(outcome)
             /\ Len(Get(outcome[2], "dimensions")[2]) = request[3][2]
        ELSE outcome = Raise("error processing the data: "
                             \o "the processed data must hold at least one dimension")
\* A well-formed plan of MaxDimensions dimensions was accepted.
C6_Witness ==
    /\ IsPlan
    /\ IsWellFormedPlan(request)
    /\ request[3][2] = MaxDimensions
    /\ Returned(outcome)
    /\ Len(Get(outcome[2], "dimensions")[2]) = MaxDimensions

\* C7: generate_goal_breakdown and generate_implementation_plan have no
\* default and no repair.  On an LLM failure or an unparseable text they raise;
\* they return only when the document the model wrote lacks no field that
\* validation requires, so no returned artifact is a canned one, and in a
\* returned plan no field holds the default of its dict.get call.
IsCompleteBreakdown(doc) ==
    /\ doc[2] = <<"criteria", CriteriaFields, "filled">>
       \/ doc[2] = <<"criteria", CriteriaFields, "empty">>
    /\ doc[3][1] = "phases"
    /\ \A n \in 1..Len(doc[3][2]) : doc[3][2][n][2] = "ok"
IsCompletePlan(doc) ==
    /\ doc[1] = "plan"
    /\ doc[2] >= 1
    /\ doc[5] = <<"none">> \/ (doc[5][1] = "dimdefect" /\ doc[5][3] = "null_why")
NoDefaultInPlan(plan) ==
    LET dims == Get(plan, "dimensions")[2]
    IN  \A i \in 1..Len(dims) :
            /\ Get(dims[i], "why") # JStr("")
            /\ Get(dims[i], "phase") # JStr("p1")
            /\ LET options == Get(dims[i], "options")[2]
               IN  \A j \in 1..Len(options) :
                       /\ Get(options[j], "difficulty") # JInt(1)
                       /\ Get(options[j], "time_cost") # JStr("")
                       /\ Get(options[j], "actions") # JList(<<>>)
C7_NoFallbackNoRepair ==
    (IsBreakdown \/ IsPlan) =>
        /\ Raised(outcome) \/ Returned(outcome)
        /\ request[2] \in {"raise", "raw"} => Raised(outcome)
        /\ (IsBreakdown /\ Returned(outcome)) =>
                /\ IsCompleteBreakdown(request[3])
                /\ Len(Get(outcome[2], "phases")[2]) = Len(request[3][3][2])
                /\ Get(outcome[2], "goal") = Get(DocValue(request)[2], "goal")
        /\ (IsPlan /\ Returned(outcome)) =>
                /\ IsCompletePlan(request[3])
                /\ Len(Get(outcome[2], "dimensions")[2]) = request[3][2]
                /\ NoDefaultInPlan(outcome[2])
\* A plan whose second dimension lacks "why" and "phase" was refused, not filled in.
C7_Witness ==
    /\ request = <<"plan", "bare",
                   <<"plan", MaxDimensions, MaxOptions, 1,
                     <<"dimdefect", 2, "no_why_no_phase">>, "compact">> >>
    /\ Raised(outcome)

\* C8: for a well-formed JSON object in a single fenced code block (opening
\* line with or without a language tag), with or without prose around the
\* fence, the extraction and parse steps of each generator yield what parsing
\* the fence contents directly yields.
FencedWraps ==
    {"fence_json", "fence_plain", "fence_other", "prose_fence", "fence_prose",
     "prose_fence_prose", "brace_prose_fence"}
C8_FencedParsesAsContents ==
    (request[2] \in FencedWraps /\ DocValue(request)[1] /\ IsDict(DocValue(request)[2])) =>
        PipelineParse(request) = DocValue(request)

\* C9: for a plan text that is valid JSON but for trailing commas before "]"
\* or "}" (directly before it, or with spaces or a line break in between), the
\* plan parser recovers the structure of the text without those commas, string
\* values unchanged.
TrailingStyles == {"trailing_tight", "trailing_space", "trailing_lines", "bracket_trailing"}
WithoutTrailingCommas(doc) ==
    <<doc[1], doc[2], doc[3], doc[4], doc[5],
      IF doc[6] = "bracket_trailing" THEN "bracket_string" ELSE "compact">>
C9_TrailingCommasRepaired ==
    (IsPlan /\ request[2] = "bare" /\ request[3][1] = "plan" /\ request[3][6] \in TrailingStyles) =>
        PipelineParse(request)
            = DocValue(<<"plan", "bare", WithoutTrailingCommas(request[3])>>)

\* C10: validate_goal_breakdown rejects a breakdown whose completion_criteria
\* lacks one of must_have_skills, must_complete_tasks, validation_methods, with
\* a message that names it as completion_criteria.<field> (the first one
\* lacking, when several are); and it accepts a breakdown in which all three
\* are empty lists.
FirstLackingCriterion(S) ==
    CASE "must_have_skills" \notin S -> "must_have_skills"
      [] "must_complete_tasks" \notin S -> "must_complete_tasks"
      [] OTHER -> "validation_methods"
C10_CriteriaFieldsRequired ==
    (IsBreakdown /\ request[2] = "bare" /\ request[3][2][1] = "criteria") =>
        IF request[3][2][2] # CriteriaFields
        THEN /\ Raised(outcome)
             /\ Contains(outcome[2],
                         "completion_criteria." \o FirstLackingCriterion(request[3][2][2]))
             /\ \A f \in CriteriaFields \ {FirstLackingCriterion(request[3][2][2])} :
                    ~Contains(outcome[2], f)
        ELSE IsCompleteBreakdown(request[3]) => Returned(outcome)
\* A breakdown that lacks only validation_methods was rejected under that name.
C10_Witness ==
    /\ request = <<"breakdown", "bare",
                   <<"bd", <<"criteria", {"must_have_skills", "must_complete_tasks"}, "empty">>,
                     TwoPhases>> >>
    /\ Raised(outcome)
    /\ Contains(outcome[2], "completion_criteria.validation_methods")
\* A breakdown whose three criteria are empty lists was accepted.
C10_WitnessAccepted ==
    /\ request = <<"breakdown", "bare", <<"bd", <<"criteria", CriteriaFields, "empty">>, TwoPhases>> >>
    /\ Returned(outcome)

\* C11 (as stated): for breakdown and plan generation the message tells the
\* failure class.  An LLM call that raises or returns the empty text gives the
\* service-unavailable message; a text that cannot be parsed gives the
\* malformed-output message; a missing required field gives a message that
\* names that field and is neither of the other two; and neither fixed message
\* is given to a failure of another class.
IsLlmFailure(r) == r[2] = "raise" \/ (r[2] = "raw" /\ r[3][2] = "empty")
IsUnparseable(r) == r[2] = "raw" /\ r[3][2] # "empty"
DefectField(d) ==
    CASE d = "no_id" -> {"id"}
      [] d = "no_name" -> {"name"}
      [] d = "no_why" -> {"why"}
      [] d = "no_phase" -> {"phase"}
      [] d = "no_options" -> {"options"}
      [] d = "no_why_no_phase" -> {"why", "phase"}
      [] d = "no_difficulty" -> {"difficulty"}
      [] d = "no_time_cost" -> {"time_cost"}
      [] d = "no_actions" -> {"actions"}
      [] d = "no_name_no_actions" -> {"name", "actions"}
      [] d = "no_focus" -> {"focus_dimensions"}
      [] d = "no_milestones" -> {"milestones"}
      [] d = "no_exit" -> {"exit_criteria"}
      [] d = "exit_no_skills" -> {"skills_checklist"}
      [] d = "exit_no_tasks" -> {"practical_tasks"}
      [] OTHER -> {}
\* The defect of the first phase that has one, "ok" when none has.
FirstPhaseDefect(ps) ==
    LET bad == {n \in 1..Len(ps) : ps[n][2] # "ok"}
    IN  IF bad = {} THEN "ok" ELSE ps[Min(bad)][2]
\* The required fields whose absence is the first thing validation meets in
\* the document of r ({} when it meets something else first, or nothing).
LackingFields(r) ==
    LET doc == r[3]
    IN  IF r[2] # "bare" THEN {}
        ELSE IF r[1] = "breakdown"
        THEN CASE doc[2] = <<"goal", "absent">> -> {"goal"}
               [] doc[2] = <<"goal", "no_description">> -> {"goal.description"}
               [] doc[2] = <<"goal", "no_criteria">> -> {"goal.completion_criteria"}
               [] doc[2][1] = "goal" -> {}
               [] doc[2][2] # CriteriaFields ->
                    {"completion_criteria." \o FirstLackingCriterion(doc[2][2])}
               [] doc[3] = <<"phases_shape", "absent">> -> {"phases"}
               [] doc[3][1] = "phases_shape" -> {}
               [] OTHER -> DefectField(FirstPhaseDefect(doc[3][2]))
        ELSE IF r[1] = "plan"
        THEN CASE doc = <<"plan_shape", "no_dimensions">> -> {"dimensions"}
               [] doc[1] = "plan_shape" -> {}
               [] doc[5][1] = "dimdefect" -> DefectField(doc[5][3])
               [] doc[5][1] = "optdefect" -> DefectField(doc[5][4])
               [] OTHER -> {}
        ELSE {}
FixedMessagesKeepTheirClass ==
    /\ IsLlmFailure(request) => outcome = Raise(ServiceUnavailable)
    /\ IsUnparseable(request) => outcome = Raise(MalformedOutput)
    /\ ServiceUnavailable # MalformedOutput
    /\ outcome = Raise(ServiceUnavailable) => IsLlmFailure(request)
    /\ outcome = Raise(MalformedOutput) =>
            ~IsLlmFailure(request) /\ ~PipelineParse(request)[1]
ExitFields == {"skills_checklist", "practical_tasks"}
C11_WitnessField ==
    /\ request = <<"plan", "bare",
                   <<"plan", MaxDimensions, MaxOptions, 1,
                     <<"dimdefect", 2, "no_why_no_phase">>, "compact">> >>
    /\ Raised(outcome)
    /\ Contains(outcome[2], "why, phase")

\* C12: in generate_questions an element of the model's questions list that
\* is not a mapping is dropped: the returned list holds exactly the mapping
\* elements of the model's list, in their order.
MappingEntries(entries) == SelectSeq(entries, LAMBDA e : e[1] = "map")
C12_NonMappingsDropped ==
    (IsQuestions /\ request[2] = "bare" /\ request[3][1] = "list") =>
        /\ Returned(outcome)
        /\ LET qs == Get(outcome[2], "questions")[2]
               kept == MappingEntries(request[3][2])
           IN  /\ Len(qs) = Len(kept)
               /\ \A n \in 1..Len(qs) :
                    /\ IsDict(qs[n])
                    /\ \A f \in kept[n][2] :
                          Get(qs[n], f) = Get(JsonLoads("{" \o QuestionFieldText(f) \o "}")[2], f)

\* C13: when the parsed response has no "questions" key but its
\* analysis.key_concerns is a list of n concerns, generate_questions returns
\* exactly n questions, one per concern in order, with the ids "1".."n" and
\* the four fields filled from the template; it does not return the default set.
ConcernName(i) == "concern " \o ToString(i)
C13_QuestionsFromConcerns ==
    (IsQuestions /\ request[3][1] = "concerns" /\ request[2] # "brace_prose_fence") =>
        /\ Returned(outcome)
        /\ LET qs == Get(outcome[2], "questions")
           IN  /\ IsList(qs)
               /\ Len(qs[2]) = request[3][2]
               /\ \A i \in 1..Len(qs[2]) :
                    /\ Keys(qs[2][i]) = QuestionFields
                    /\ Get(qs[2][i], "id") = JStr(ToString(i))
                    /\ Get(qs[2][i], "question")
                         = JStr("About \"" \o ConcernName(i) \o "\", what is your situation?")
                    /\ Get(qs[2][i], "purpose")
                         = JStr("learn the details about " \o ConcernName(i))
                    /\ Get(qs[2][i], "expected_insight")
                         = JStr("get the user's situation regarding " \o ConcernName(i))
        /\ outcome # Return(get_default_questions)
\* Two concerns gave two questions, with the ids "1" and "2".
C13_Witness ==
    /\ request = <<"questions", "bare", <<"concerns", 2>> >>
    /\ Returned(outcome)
    /\ Len(Get(outcome[2], "questions")[2]) = 2
    /\ Get(Get(outcome[2], "questions")[2][2], "id") = JStr("2")

\* C14: fence extraction is the identity on a response text with fewer than
\* two fence markers: in each of the three generators a text with no marker
\* or exactly one reaches the parser unchanged, outer whitespace apart.
ExtractedText(r) ==
    LET text == ResponseOf(r)[2]
    IN  CASE r[1] = "questions" -> ExtractQuestionsText(Strip(text))
          [] r[1] = "breakdown" -> ExtractBreakdownText(text)
          [] r[1] = "plan" -> ExtractPlanText(Strip(text))
MarkerCount(r) == Cardinality(Occurrences(ResponseOf(r)[2], Fence))
C14_FewMarkersIdentity ==
    (request # NoRequest /\ request[2] # "raise" /\ MarkerCount(request) < 2) =>
        Strip(ExtractedText(request)) = Strip(ResponseOf(request)[2])

\* C15: for every artifact kind, when the strict parse of the extracted text
\* fails but the text from its first "{" to its last "}" is a valid JSON
\* object, generation goes on with that object.
BraceSlice(text) ==
    LET start == PyFind(text, "{", 0)
        end == PyRFind(text, "}") + 1
    IN  IF start >= 0 /\ end > start THEN Slice(text, start, end) ELSE ""
HasSliceOnly(r) ==
    /\ r[2] \notin {"none", "raise"}
    /\ ~JsonLoads(ExtractedText(r))[1]
    /\ JsonLoads(BraceSlice(ExtractedText(r)))[1]
    /\ IsDict(JsonLoads(BraceSlice(ExtractedText(r)))[2])
C15_SliceFallback ==
    HasSliceOnly(request) =>
        PipelineParse(request) = JsonLoads(BraceSlice(ExtractedText(request)))

\* C16: breakdown validation requires phases to be a non-empty list: a
\* breakdown whose phases is missing, not a list or the empty list is
\* rejected, so every breakdown returned has at least one phase, each with a
\* name, the lists focus_dimensions and milestones, and a mapping
\* exit_criteria that holds skills_checklist and practical_tasks.
IsCompletePhase(phase) ==
    /\ IsDict(phase)
    /\ HasKey(phase, "name")
    /\ HasKey(phase, "focus_dimensions") /\ IsList(Get(phase, "focus_dimensions"))
    /\ HasKey(phase, "milestones") /\ IsList(Get(phase, "milestones"))
    /\ HasKey(phase, "exit_criteria") /\ IsDict(Get(phase, "exit_criteria"))
    /\ HasKey(Get(phase, "exit_criteria"), "skills_checklist")
    /\ HasKey(Get(phase, "exit_criteria"), "practical_tasks")
HasNoPhase(doc) == doc[3][1] = "phases_shape" \/ doc[3] = <<"phases", <<>> >>
C16_PhasesNonEmpty ==
    /\ (IsBreakdown /\ request[3][1] = "bd" /\ HasNoPhase(request[3])) => Raised(outcome)
    /\ (IsBreakdown /\ Returned(outcome)) =>
            LET phases == Get(outcome[2], "phases")
            IN  /\ IsList(phases)
                /\ Len(phases[2]) >= 1
                /\ \A n \in 1..Len(phases[2]) : IsCompletePhase(phases[2][n])

\* C17: generate_goal_breakdown changes nothing of the parsed model output
\* but the id of each phase: the returned breakdown has the phases of the
\* model's document, as many and in the same order, and goal and every other
\* field of every phase are as parsed.
SameButId(phase, parsed) ==
    /\ IsDict(phase)
    /\ \A n \in 1..Len(Keys(phase)) : Keys(phase)[n] = "id" \/ HasKey(parsed, Keys(phase)[n])
    /\ \A n \in 1..Len(Keys(parsed)) :
          LET k == Keys(parsed)[n]
          IN  k = "id" \/ (HasKey(phase, k) /\ Get(phase, k) = Get(parsed, k))
C17_OnlyIdsChange ==
    (IsBreakdown /\ Returned(outcome)) =>
        LET parsed == DocValue(request)[2]
            given == Get(parsed, "phases")[2]
            phases == Get(outcome[2], "phases")[2]
        IN  /\ Keys(outcome[2]) = Keys(parsed)
            /\ Get(outcome[2], "goal") = Get(parsed, "goal")
            /\ Len(phases) = Len(given)
            /\ \A n \in 1..Len(phases) : SameButId(phases[n], given[n])
\* A document of MaxPhases phases came back with all of them, each with the
\* name the model gave it.
C17_Witness ==
    /\ IsBreakdown
    /\ request[2] = "bare"
    /\ request[3][3][1] = "phases"
    /\ Len(request[3][3][2]) = MaxPhases
    /\ Returned(outcome)
    /\ \A n \in 1..MaxPhases :
          Get(Get(outcome[2], "phases")[2][n], "name") = JStr("Phase " \o ToString(n))

(***************************************************************************)
(* Properties of the staged calls.                                         *)
(***************************************************************************)
StageRank(stage) ==
    CASE stage = "idle" -> 0
      [] stage = "prompt" -> 1
      [] stage = "call" -> 2
      [] stage = "extract" -> 3
      [] stage = "parse" -> 4
      [] stage = "validate" -> 5
      [] stage = "repair" -> 6
      [] stage = "done" -> 7
\* What a finished call gave: the object a returned reference points to.
ValueOf(c) ==
    IF reply[c][1] = "return" /\ reply[c][2][1] = "ref"
    THEN Return(objects[reply[c][2][2]])
    ELSE reply[c]
\* The call of request r taken as one step.
Generate(r) ==
    CASE r[1] = "questions" -> generate_questions(ResponseOf(r))
      [] r[1] = "breakdown" -> generate_goal_breakdown(ResponseOf(r))
      [] r[1] = "plan" -> generate_implementation_plan(ResponseOf(r))
EndsProperly(c) ==
    /\ Returned(reply[c]) \/ Raised(reply[c])
    /\ req[c][1] = "questions" => Returned(reply[c])
    /\ calls[c] = 0 => (reply[c] = Raise(PromptFailed) \/ reply[c][2][1] = "ref")

\* A caller that is in a call and has not ended it can take its next step.
CanGoOn(c) == pc[c] = "call" => calls[c] < MaxCalls

\* C18: each call of a generator calls the LLM client at most once and goes
\* through its stages in the order prompt, call, extract, parse, validate,
\* repair without going back to an earlier one; after a failure no other LLM
\* call is made; and every call ends, with a returned artifact or with a
\* failure (the default set for questions, an error raised for the other
\* two): a call that has not ended can always take a step, and every step
\* takes it to a later stage.
C18_OneCallStagesInOrder ==
    /\ [](\A c \in Callers : calls[c] <= 1)
    /\ [][\A c \in Callers :
            /\ StageRank(pc'[c]) >= StageRank(pc[c])
            /\ calls'[c] # calls[c] => (pc[c] = "call" /\ pc'[c] # "call")
            /\ reply'[c] # reply[c] => (pc[c] # "done" /\ pc'[c] = "done")
            /\ pc[c] = "done" => (pc'[c] = "done" /\ calls'[c] = calls[c])]_vars
    /\ [](\A c \in Callers : pc[c] = "done" => EndsProperly(c))
    /\ [](\A c \in Callers : pc[c] \notin {"idle", "done"} => CanGoOn(c))
\* A breakdown call whose LLM call raised has ended with the error, after
\* one call.
C18_Witness ==
    /\ pc["a"] = "done"
    /\ req["a"] = <<"breakdown", "raise", <<"none">> >>
    /\ calls["a"] = 1
    /\ reply["a"] = Raise(ServiceUnavailable)

\* C19: calls that run side by side share nothing that changes: whatever the
\* interleaving, what a call gives depends on its own request and its own
\* LLM response only; and a caller that changes the default set it was given
\* does not change the default set any other call is given.
C19_CallsShareNothing ==
    \A c \in Callers :
        (pc[c] = "done" /\ c \notin changed) =>
            \/ calls[c] = 1 /\ ValueOf(c) = Generate(req[c])
            \/ /\ calls[c] = 0
               /\ ValueOf(c) = IF req[c][1] = "questions" THEN Return(get_default_questions)
                               ELSE Raise(PromptFailed)
\* Caller a has cleared the default set it was given, and the default set
\* that caller b was given afterwards is whole.
C19_Witness ==
    /\ "a" \in changed
    /\ "b" \notin changed
    /\ pc["b"] = "done"
    /\ Returned(reply["b"])
    /\ reply["b"][2][1] = "ref"
    /\ ValueOf("a") = Return(JDict(<< <<"questions", JList(<<>>)>> >>))
    /\ ValueOf("b") = Return(get_default_questions)

(***************************************************************************)
(* Properties of the last generation call, continued.                      *)
(***************************************************************************)
\* C20: comment stripping is the identity on comment-free input: for a
\* response that is valid JSON without comments and passes plan validation,
\* the plan returned is the one validation gives for the parsed response,
\* every string value (name, why, time_cost, each action) as the model wrote
\* it, whatever characters it holds.
CommentFreeStyles == {"compact", "lines", "url", "url_lines", "bracket_string"}
IsCommentFreePlan(r) ==
    /\ r[2] = "bare"
    /\ r[3][1] = "plan"
    /\ r[3][2] >= 1
    /\ r[3][5] = <<"none">>
    /\ r[3][6] \in CommentFreeStyles
C20_CommentFreeUnchanged ==
    (IsPlan /\ IsCommentFreePlan(request)) =>
        /\ DocValue(request)[1]
        /\ outcome = Return(process_implementation_data(DocValue(request)[2])[2])
        /\ \A i \in 1..request[3][2] :
              Get(Get(outcome[2], "dimensions")[2][i], "why")
                  = JsonLoads(WhyText(request[3][6], i))[2]

(***************************************************************************)
(* Properties of the goal endpoints.  Each is a statement about a step of  *)
(* a request handler: handled' tells whose request it was, the endpoint    *)
(* and the goal it named, and what the step sent back (status 0 when the   *)
(* handler only got as far as its LLM call).                               *)
(***************************************************************************)
GeneratingEndpoints == {"breakdown", "regenerate", "implementation"}

\* C21: a failed generation leaves the stored goals unchanged: a step of the
\* breakdown, regenerate or implementation handler changes the goals table
\* only when it is the step that sends the generated result (status 200);
\* when the generator raises, and also when the handler stops before the LLM
\* call or is suspended at it, questions_answers, goal_breakdown and
\* implementation_plan of every row are after the step what they were before.
C21_FailedGenerationStoresNothing ==
    [][(handled'.endpoint \in GeneratingEndpoints /\ handled'.status # 200)
          => goals' = goals]_vars

\* The breakdown was generated and stored, with the answers; a later
\* breakdown request for the same goal failed in the generator (the LLM's
\* answer was not JSON), and the stored breakdown and answers are still there.
C21_Witness ==
    /\ handled.endpoint = "breakdown"
    /\ handled.status = 500
    /\ handled.body = <<"detail", HttpText(500, MalformedOutput)>>
    /\ \E g \in goals :
          /\ g.id = handled.goal_id
          /\ g.user_id = handled.user
          /\ g.goal_breakdown \in {o[2] : o \in {b \in BreakdownReplies : Returned(b)}}
          /\ g.questions_answers # JNull

\* The rows the step sends back are rows of u.
ReturnsOwnRows(u) ==
    handled'.body[1] = "rows" => \A g \in handled'.body[2] : g.user_id = u
\* The rows the step adds, removes or changes are rows of u.
ChangesOwnRows(u) ==
    \A g \in (goals \ goals') \cup (goals' \ goals) : g.user_id = u
\* The step takes in a request of u that names a goal that is no row of u.
NamesForeignGoal(u) ==
    /\ handled'.endpoint \in {"get", "delete", "questions"} \cup GeneratingEndpoints
    /\ inflight \subseteq inflight'
    /\ SelectGoal(handled'.goal_id, u) = {}
RefusesForeignGoal(u) ==
    NamesForeignGoal(u) =>
        /\ handled'.body[1] = "detail"
        /\ handled'.status \in {404, 500}
        /\ ~handled'.llm
        /\ goals' = goals
        /\ inflight' = inflight

\* C22: goals are isolated per user, whatever the users' requests and their
\* order: a step of user u's request returns only rows of u and adds,
\* removes or changes only rows of u; and when the request names a goal
\* that is not a row of u (another user's, or none) it returns a message
\* only, changes no row and calls no LLM.
C22_GoalsIsolated ==
    [][/\ ReturnsOwnRows(handled'.user)
       /\ ChangesOwnRows(handled'.user)
       /\ RefusesForeignGoal(handled'.user)]_vars

====
